---- MODULE Spec2Model ----
(***************************************************************************)
(* A state-machine model of the simulation core of ultramario4k.py: the     *)
(* main loop of Game.run (event handling, Game.handle_input, Game.update),  *)
(* the entities' update methods, Game.handle_collisions and the lifecycle   *)
(* handlers (take_damage, respawn, complete_level, game_over, victory).     *)
(*                                                                         *)
(* Numbers.  A pygame.Rect holds integers; assigning a float to one of its  *)
(* attributes truncates toward zero.  Positions are therefore integers     *)
(* (pixels).  The velocities the code keeps as floats (Player.vx and every  *)
(* vy) are multiples of 0.1 and are kept in TENTHS of a pixel per tick:     *)
(* GRAVITY = 0.8 is 8, JUMP_STRENGTH = -16 is -160 once stored in vy.       *)
(* `rect.y += vy` is AddTrunc(y, vy).  The double the code holds differs   *)
(* from the exact multiple of 0.1 by a rounding error.  It shows in two    *)
(* places: in the test `vy > 0` when the exact value is 0, where the       *)
(* player's field vy0 (the value vy was last assigned, as opposed to       *)
(* incremented to) tells which sum it is (Falling), and in the truncation  *)
(* of an enemy's y once its vy has been summed for fifty ticks and more    *)
(* (Enemy_fall).  Two quantities are real numbers in                       *)
(* the code and rounded here: AnimatedPlatform.move_speed, drawn by         *)
(* random.uniform(1, 3), is drawn in tenths, and World.camera_x is kept in  *)
(* thousandths of a pixel.  A moving platform's position is truncated as    *)
(* its Rect truncates it, and no handler reads camera_x back.  The sine of a *)
(* piranha's bobbing is tabulated as the Rect truncates it (PiranhaBob).    *)
(* Rendering, particles, clouds, sounds and transition_alpha are left out:  *)
(* no handler reads them back.                                             *)
(***************************************************************************)
EXTENDS Integers, Sequences, FiniteSets, TLC

SCREEN_WIDTH == 1024
SCREEN_HEIGHT == 768
GRAVITY == 8
JUMP_STRENGTH == -16
MOVE_SPEED == 6

None == [isNone |-> TRUE]

Abs(a) == IF a >= 0 THEN a ELSE -a
Max(a, b) == IF a >= b THEN a ELSE b
Min(a, b) == IF a <= b THEN a ELSE b

\* int(t / 10) for a value t in tenths: the truncation toward zero a Rect
\* attribute applies to a float.
Trunc10(t) == IF t >= 0 THEN t \div 10 ELSE -((-t) \div 10)

\* rect.attr += v for an integer attribute and a velocity v in tenths.
AddTrunc(pos, v) == Trunc10(10 * pos + v)

\* pygame.Rect: every entity record carries x, y, w, h.
colliderect(a, b) ==
    /\ a.x < b.x + b.w
    /\ b.x < a.x + a.w
    /\ a.y < b.y + b.h
    /\ b.y < a.y + a.h

centerx(r) == r.x + r.w \div 2
centery(r) == r.y + r.h \div 2
bottom(r) == r.y + r.h

(***************************************************************************)
(* Player                                                                  *)
(***************************************************************************)
BigPowerUps == {"MUSHROOM", "FIRE_FLOWER", "ICE_FLOWER"}
PowerUpType == {"NONE", "MUSHROOM", "FIRE_FLOWER", "STAR", "ICE_FLOWER"}

\* Player.create_character_sprite, the part that touches the rect: the
\* sprite is 36x48 for the three tall forms and 36x36 otherwise, and the new
\* rect keeps the old centerx and bottom.
create_character_sprite(p) ==
    LET nh == IF p.power_up \in BigPowerUps THEN 48 ELSE 36
    IN [p EXCEPT !.x = centerx(p) - 36 \div 2,
                 !.y = bottom(p) - nh,
                 !.w = 36,
                 !.h = nh]

\* Player.__init__
Player(x, y) ==
    create_character_sprite(
        [x |-> x, y |-> y, w |-> 36, h |-> 36, vx |-> 0, vy |-> 0, vy0 |-> 0,
         power_up |-> "NONE", invincible_timer |-> 0, fire_cooldown |-> 0,
         lives |-> 3, coins |-> 0, on_ground |-> FALSE,
         facing_right |-> TRUE, animation_time |-> 0])

\* Player.jump without the test of on_ground.
Player_jump_in_mid_air(p) ==
    [p EXCEPT !.vy = JUMP_STRENGTH * 10, !.vy0 = JUMP_STRENGTH * 10]

\* Player.jump
Player_jump(p) ==
    IF p.on_ground
    THEN [p EXCEPT !.vy = JUMP_STRENGTH * 10, !.vy0 = JUMP_STRENGTH * 10]
    ELSE p

\* self.vy > 0.  vy is a double: twenty additions of 0.8 to -16 leave
\* 5.1e-15, which is positive, and ten additions of 0.8 to -8 leave
\* -1.1e-15, which is not; every other sum reached has the sign of its
\* exact value.
Falling(p) ==
    \/ p.vy > 0
    \/ p.vy = 0 /\ p.vy0 = JUMP_STRENGTH * 10

\* Player.update with a Star that stays when the timer runs out.
Player_update_star_kept(p) ==
    LET vy1 == p.vy + GRAVITY
    IN create_character_sprite(
        [p EXCEPT !.vy = vy1,
                  !.x = AddTrunc(p.x, p.vx),
                  !.y = AddTrunc(p.y, vy1),
                  !.animation_time = @ + 1,
                  !.invincible_timer = IF @ > 0 THEN @ - 1 ELSE @,
                  !.fire_cooldown = IF @ > 0 THEN @ - 1 ELSE @])

\* Player.update
Player_update(p) ==
    LET vy1 == p.vy + GRAVITY
        inv1 == IF p.invincible_timer > 0 THEN p.invincible_timer - 1
                ELSE p.invincible_timer
        pu1 == IF p.invincible_timer > 0 /\ inv1 = 0 /\ p.power_up = "STAR"
               THEN "NONE" ELSE p.power_up
    IN create_character_sprite(
        [p EXCEPT !.vy = vy1,
                  !.x = AddTrunc(p.x, p.vx),
                  !.y = AddTrunc(p.y, vy1),
                  !.animation_time = @ + 1,
                  !.invincible_timer = inv1,
                  !.power_up = pu1,
                  !.fire_cooldown = IF @ > 0 THEN @ - 1 ELSE @])

(***************************************************************************)
(* Platforms, enemies, pickups, projectiles                                *)
(***************************************************************************)
\* AnimatedPlatform.__init__
AnimatedPlatform(x, y, width, height) ==
    [x |-> x, y |-> y, w |-> width, h |-> height,
     is_moving |-> FALSE, move_range |-> 0, move_speed |-> 0,
     start_x |-> x, start_y |-> y, direction |-> 1,
     vertical_moving |-> FALSE]

\* AnimatedPlatform.update (move_speed in tenths)
AnimatedPlatform_update(pl) ==
    IF ~pl.is_moving THEN pl
    ELSE IF pl.vertical_moving
    THEN LET ny == AddTrunc(pl.y, pl.move_speed * pl.direction)
         IN [pl EXCEPT !.y = ny,
                       !.direction = IF Abs(ny - pl.start_y) > pl.move_range
                                     THEN -pl.direction ELSE pl.direction]
    ELSE LET nx == AddTrunc(pl.x, pl.move_speed * pl.direction)
         IN [pl EXCEPT !.x = nx,
                       !.direction = IF Abs(nx - pl.start_x) > pl.move_range
                                     THEN -pl.direction ELSE pl.direction]

\* list(EnemyType), in declaration order
EnemyType ==
    <<"GOOMBA", "KOOPA", "PIRANHA", "BULLET", "HAMMER_BRO", "BOO", "SPIKE">>

\* AnimatedEnemy.__init__: the sizes table
EnemySize(t) ==
    CASE t = "GOOMBA" -> <<32, 32>>
      [] t = "KOOPA" -> <<36, 52>>
      [] t = "PIRANHA" -> <<44, 64>>
      [] t = "BULLET" -> <<32, 24>>
      [] t = "HAMMER_BRO" -> <<44, 56>>
      [] t = "BOO" -> <<40, 40>>
      [] t = "SPIKE" -> <<36, 36>>

\* AnimatedEnemy.__init__; vx is the outcome of random.choice([-2, 2])
AnimatedEnemy(x, y, enemy_type, vx) ==
    [x |-> x, y |-> y, w |-> EnemySize(enemy_type)[1],
     h |-> EnemySize(enemy_type)[2], vx |-> vx, vy |-> 0,
     enemy_type |-> enemy_type, patrol_distance |-> 150, start_x |-> x,
     alive |-> TRUE, animation_frame |-> 0, squash_timer |-> 0]

\* floor(math.sin(f * 0.05) * 20) for f = 1 .. Len(PiranhaBob): the value
\* int(start_x + math.sin(animation_frame * 0.05) * 20) - start_x takes for
\* every start_x the generator can draw.
PiranhaBob ==
    <<0, 1, 2, 3, 4, 5, 6, 7, 8, 9, 10, 11, 12, 12, 13, 14, 15, 15, 16, 16, 17, 17, 18, 18,
      18, 19, 19, 19, 19, 19, 19, 19, 19, 19, 19, 19, 19, 18, 18, 18, 17, 17, 16, 16, 15, 14, 14, 13,
      12, 11, 11, 10, 9, 8, 7, 6, 5, 4, 3, 2, 1, 0, -1, -2, -3, -4, -5, -6, -7, -8, -8, -9,
      -10, -11, -12, -13, -14, -14, -15, -16, -16, -17, -17, -18, -18, -19, -19, -20, -20, -20, -20, -20, -20, -20, -20, -20,
      -20, -20, -20, -20, -19, -19, -19, -18, -18, -17, -17, -16, -15, -15, -14, -13, -12, -12, -11, -10, -9, -8, -7, -6,
      -5, -4, -3, -2, -1, 0, 1, 2, 3, 4, 5, 6, 7, 8, 9, 9, 10, 11, 12, 13, 13, 14, 15, 15,
      16, 17, 17, 17, 18, 18, 19, 19, 19, 19, 19, 19, 19, 19, 19, 19, 19, 19, 19, 18, 18, 18, 17, 17,
      16, 15, 15, 14, 13, 13, 12, 11, 10, 10, 9, 8, 7, 6, 5, 4, 3, 2, 1, 0, -1, -2, -3, -4,
      -5, -6, -7, -8, -9, -10, -11, -11, -12, -13, -14, -14, -15, -16, -16, -17, -18, -18, -19, -19, -19, -20, -20, -20,
      -20, -20, -20, -20, -20, -20, -20, -20, -20, -20, -19, -19, -18, -18, -18, -17, -16, -16, -15, -14, -14, -13, -12, -11,
      -10, -9, -9, -8, -7, -6, -5, -4, -3, -2, -1, 0, 1, 2, 3, 4, 5, 6, 7, 8, 9, 10, 11, 11,
      12, 13, 14, 14, 15, 16, 16, 17, 17, 18, 18, 18, 19, 19, 19, 19, 19, 19, 19, 19, 19, 19, 19, 19,
      19, 18, 18, 17, 17, 16, 16, 15, 15, 14, 13, 13, 12, 11, 10, 9, 8, 7, 7, 6, 5, 4, 3, 2,
      1, 0, -1, -2, -3, -4, -5, -6, -7, -8, -9, -10, -11, -12, -12, -13, -14, -15, -15, -16, -17, -17, -18, -18,
      -19, -19, -19, -20, -20, -20, -20, -20, -20, -20, -20, -20, -20, -20, -20, -19, -19, -19, -18, -18, -17, -17, -16, -16,
      -15, -14, -13, -13, -12, -11, -10, -9, -8, -7, -6, -5, -4, -3, -2, -1, 0, 1, 2, 2, 3, 4, 5, 6,
      7, 8, 9, 10, 11, 12, 12, 13, 14, 15, 15, 16, 16, 17, 17, 18, 18, 18, 19, 19, 19, 19, 19, 19,
      19, 19, 19, 19, 19, 19, 18, 18, 18, 17, 17, 16, 16, 15, 14, 14, 13, 12, 11, 11, 10, 9, 8, 7,
      6, 5, 4, 3, 2, 1, 0, -1, -2, -3, -4, -5, -6, -7, -8, -8, -9, -10, -11, -12, -13, -14, -14, -15,
      -16, -16, -17, -17, -18, -18, -19, -19, -20, -20, -20, -20, -20, -20, -20, -20, -20, -20, -20, -20, -20, -19, -19, -19,
      -18, -18, -17, -17, -16, -15, -15, -14, -13, -12, -12, -11, -10, -9, -8, -7, -6, -5, -4, -3, -2, -1, 0, 1,
      2, 3, 4, 5, 6, 7, 8, 9, 9, 10, 11, 12, 13, 13, 14, 15, 15, 16, 17, 17, 17, 18, 18, 19,
      19, 19, 19, 19, 19, 19, 19, 19, 19, 19, 19, 19, 18, 18, 18, 17, 17, 16, 15, 15, 14, 13, 13, 12,
      11, 10, 10, 9, 8, 7, 6, 5, 4, 3, 2, 1, 0, -1, -2, -3, -4, -5, -6, -7, -8, -9, -10, -11,
      -11, -12, -13, -14, -15, -15, -16, -16, -17, -18, -18, -19, -19, -19, -20, -20, -20, -20, -20, -20, -20, -20, -20, -20,
      -20, -20, -20, -19, -19, -18, -18, -17, -17, -16, -16, -15, -14, -14, -13, -12, -11, -10, -9, -9, -8, -7, -6, -5,
      -4, -3, -2, -1, 0, 1, 2, 3, 4, 5, 6, 7, 8, 9, 10, 11, 11, 12, 13, 14, 14, 15, 16, 16,
      17, 17, 18, 18, 18, 19, 19, 19, 19, 19, 19, 19, 19, 19, 19, 19, 19, 19, 18, 18, 17, 17, 16, 16,
      15, 15, 14, 13, 12, 12, 11, 10, 9, 8, 7, 6, 6, 5, 4, 3, 2, 1, 0, -1, -2, -3, -4, -5,
      -6, -7, -8, -9, -10, -11, -12, -12, -13, -14, -15, -15, -16, -17, -17, -18, -18, -19, -19, -19, -20, -20, -20, -20>>

\* An enemy's vy is the double that k additions of 0.8 to 0.0 leave.  Where
\* the exact sum 0.8k is a whole number n, that double falls short of n for
\* the k below (by 8.9e-16 at k = 10, by 2.3e-13 at k = 150), and y + vy
\* rounds to y + n only from the power of two on at which the spacing of
\* the doubles exceeds the shortfall: below y + n = GravityShortfall(k) the
\* Rect truncates the sum to y + n - 1.  Tabulated for k <= 750.
GravityShortfall(k) ==
    CASE k = 10 -> 9
      [] k = 50 -> 129
      [] k = 55 -> 257
      [] k \in {60, 65, 185} -> 513
      [] k \in {70, 75, 80, 85, 180} -> 1025
      [] k \in {90, 95, 100, 105, 110, 115, 120, 125, 170, 175} -> 2049
      [] k \in {130, 135, 140, 145, 150, 155, 160, 165} -> 4097
      [] OTHER -> 0

\* self.rect.y += self.vy for an enemy: y a whole number, v = vy in tenths.
Enemy_fall(y, v) ==
    IF /\ v % 10 = 0
       /\ y >= 0
       /\ y + v \div 10 < GravityShortfall(v \div GRAVITY)
    THEN y + v \div 10 - 1
    ELSE AddTrunc(y, v)

\* AnimatedEnemy.update
AnimatedEnemy_update(e) ==
    LET f == e.animation_frame + 1
        moved ==
            CASE e.enemy_type = "BULLET" ->
                   [e EXCEPT !.x = e.x + e.vx * 3]
              [] e.enemy_type = "PIRANHA" ->
                   [e EXCEPT !.y = e.start_x + PiranhaBob[f]]
              [] e.enemy_type = "BOO" -> e
              [] OTHER ->
                   LET nx == e.x + e.vx
                   IN [e EXCEPT !.x = nx,
                                !.vx = IF Abs(nx - e.start_x) > e.patrol_distance
                                       THEN -e.vx ELSE e.vx]
        vy1 == e.vy + GRAVITY
    IN [moved EXCEPT !.animation_frame = f,
                     !.squash_timer = IF @ > 0 THEN @ - 1 ELSE @,
                     !.vy = vy1,
                     !.y = Enemy_fall(moved.y, vy1)]

\* AnimatedPowerUp.update / AnimatedCoin.update add
\* sin(pygame.time.get_ticks() * 0.003 + float_offset) * amplitude, with
\* amplitude 0.5 or 0.3, to rect.y: a value in [-0.5, 0.5], so the rect moves
\* up one pixel when the sine is negative and y > 0, and stays otherwise.
\* clock.tick(FPS) paces the loop at 1000/60 ms per frame, so the argument
\* advances 0.05 rad per update and the sine is negative during the second
\* half of each period of FloatPeriod updates; float_offset (the random
\* phase, here in updates) absorbs the clock's value at creation.
FloatPeriod == 126
FloatStep(y, age, float_offset) ==
    IF ((age + float_offset) % FloatPeriod) * 2 >= FloatPeriod /\ y > 0
    THEN y - 1 ELSE y

\* AnimatedPowerUp.__init__
AnimatedPowerUp(x, y, power_type, float_offset) ==
    [x |-> x, y |-> y, w |-> 28, h |-> 28, power_type |-> power_type,
     collected |-> FALSE, float_offset |-> float_offset,
     glow_animation |-> 0]

\* AnimatedPowerUp.update
AnimatedPowerUp_update(u) ==
    [u EXCEPT !.glow_animation = @ + 1,
              !.y = FloatStep(u.y, u.glow_animation + 1, u.float_offset)]

\* AnimatedCoin.__init__; spin counts the updates (spin_angle / 0.15)
AnimatedCoin(x, y, float_offset) ==
    [x |-> x, y |-> y, w |-> 24, h |-> 24, collected |-> FALSE,
     float_offset |-> float_offset, spin |-> 0]

\* AnimatedCoin.update
AnimatedCoin_update(c) ==
    [c EXCEPT !.spin = @ + 1,
              !.y = FloatStep(c.y, c.spin + 1, c.float_offset)]

\* Fireball.__init__
Fireball(x, y, direction, is_ice) ==
    [x |-> x, y |-> y, w |-> 16, h |-> 16, vx |-> 10 * direction,
     vy |-> -50, bounces |-> 0, max_bounces |-> 3, is_ice |-> is_ice]

\* Fireball.update: vy += GRAVITY * 0.5
Fireball_update(f) ==
    LET vy1 == f.vy + GRAVITY \div 2
    IN [f EXCEPT !.vy = vy1, !.x = f.x + f.vx, !.y = AddTrunc(f.y, vy1)]

\* m.update() for a member m of the group of the given kind.
Sprite_update(kind, m) ==
    CASE kind = "platform" -> AnimatedPlatform_update(m)
      [] kind = "enemy" -> AnimatedEnemy_update(m)
      [] kind = "power_up" -> AnimatedPowerUp_update(m)
      [] kind = "coin" -> AnimatedCoin_update(m)
      [] kind = "fireball" -> Fireball_update(m)

\* `for m in group: m.update()`: the sequence of the updated members of
\* s[lo .. hi], in order (split in halves).
RECURSIVE UpdateAll(_, _, _, _)
UpdateAll(kind, s, lo, hi) ==
    IF lo > hi THEN <<>>
    ELSE IF lo = hi THEN <<Sprite_update(kind, s[lo])>>
    ELSE LET mid == (lo + hi) \div 2
         IN UpdateAll(kind, s, lo, mid) \o UpdateAll(kind, s, mid + 1, hi)

(***************************************************************************)
(* World and the level generator                                           *)
(*                                                                         *)
(* generate_level draws from the global random source.  The outcomes of    *)
(* its draws are the argument rnd:                                         *)
(*   rnd.columns[k]  for the column at i = (k-1)*100: solid (the outcome   *)
(*                   of random.random() > 0.15), height, and float: None   *)
(*                   (random.random() > 0.5 was false) or the draws of the *)
(*                   floating platform;                                    *)
(*   rnd.enemies, rnd.power_ups, rnd.coins  one entry per loop iteration.  *)
(* DrawRanges states the ranges the code draws from.  The three entity      *)
(* loops run enemy_count, power_count and coin_count times: a draw of that *)
(* size is a FullDraw.  The levels of the tour are cut short: there each   *)
(* loop runs at most MaxEnemies, MaxPowerUps and MaxCoinDraws times        *)
(* (ValidDraw).                                                            *)
(***************************************************************************)
MaxEnemies == 2
MaxPowerUps == 1
MaxCoinDraws == 1

level_width(world_num) == 4000 + world_num * 500
NumColumns(world_num) == (level_width(world_num) + 99) \div 100

enemy_count(world_num) == 8 + world_num * 4
power_count(world_num) == 4 + world_num * 2
coin_count(world_num) == 30 + world_num * 10

\* enemy_types = list(EnemyType)[:min(world_num + 2, len(EnemyType))]
enemy_types(world_num) ==
    {EnemyType[j] : j \in 1..Min(world_num + 2, Len(EnemyType))}

ValidColumn(c) ==
    /\ c.solid \in BOOLEAN
    /\ c.height \in 100..200
    /\ \/ c.float = None
       \/ /\ c.float.dy \in 180..350
          /\ c.float.width \in 80..150
          /\ c.float.dx \in -50..50
          /\ c.float.moving \in BOOLEAN
          /\ c.float.move_range \in 100..200
          /\ c.float.move_speed \in 10..30
          /\ c.float.vertical \in BOOLEAN

DrawRanges(world_num, rnd) ==
    LET W == level_width(world_num)
    IN /\ Len(rnd.columns) = NumColumns(world_num)
       /\ \A k \in 1..Len(rnd.columns) : ValidColumn(rnd.columns[k])
       /\ \A j \in 1..Len(rnd.enemies) :
             /\ rnd.enemies[j].x \in 400..(W - 300)
             /\ rnd.enemies[j].y \in 100..400
             /\ rnd.enemies[j].enemy_type \in enemy_types(world_num)
             /\ rnd.enemies[j].vx \in {-2, 2}
       /\ \A j \in 1..Len(rnd.power_ups) :
             /\ rnd.power_ups[j].x \in 500..(W - 400)
             /\ rnd.power_ups[j].y \in 200..400
             /\ rnd.power_ups[j].power_type \in PowerUpType \ {"NONE"}
             /\ rnd.power_ups[j].float_offset \in 0..(FloatPeriod - 1)
       /\ \A j \in 1..Len(rnd.coins) :
             /\ rnd.coins[j].arc \in BOOLEAN
             /\ rnd.coins[j].arc => rnd.coins[j].x \in 300..(W - 500)
             /\ ~rnd.coins[j].arc =>
                    /\ rnd.coins[j].x \in 200..(W - 100)
                    /\ rnd.coins[j].y \in 150..450
             /\ rnd.coins[j].float_offset \in 0..(FloatPeriod - 1)

FullDraw(world_num, rnd) ==
    /\ DrawRanges(world_num, rnd)
    /\ Len(rnd.enemies) = enemy_count(world_num)
    /\ Len(rnd.power_ups) = power_count(world_num)
    /\ Len(rnd.coins) = coin_count(world_num)

ValidDraw(world_num, rnd) ==
    /\ DrawRanges(world_num, rnd)
    /\ Len(rnd.enemies) = Min(enemy_count(world_num), MaxEnemies)
    /\ Len(rnd.power_ups) = Min(power_count(world_num), MaxPowerUps)
    /\ Len(rnd.coins) = Min(coin_count(world_num), MaxCoinDraws)

\* Body of the terrain loop of generate_level for column k.
TerrainColumn(cols, k) ==
    LET i == (k - 1) * 100
        c == cols[k]
        ground == AnimatedPlatform(i, SCREEN_HEIGHT - c.height, 100, c.height)
        fl == [AnimatedPlatform(i + c.float.dx,
                                SCREEN_HEIGHT - c.height - c.float.dy,
                                c.float.width, 25)
               EXCEPT !.is_moving = c.float.moving,
                      !.move_range = IF c.float.moving
                                     THEN c.float.move_range ELSE 0,
                      !.move_speed = IF c.float.moving
                                     THEN c.float.move_speed ELSE 0,
                      !.vertical_moving = c.float.moving /\ c.float.vertical]
    IN IF c.solid \/ i < 300
       THEN IF i > 400 /\ c.float # None THEN <<ground, fl>> ELSE <<ground>>
       ELSE <<>>

\* The terrain loop over columns lo .. hi, in order (split in halves).
RECURSIVE Terrain(_, _, _)
Terrain(cols, lo, hi) ==
    IF lo > hi THEN <<>>
    ELSE IF lo = hi THEN TerrainColumn(cols, lo)
    ELSE LET mid == (lo + hi) \div 2
         IN Terrain(cols, lo, mid) \o Terrain(cols, mid + 1, hi)

\* Body of the coin loop of generate_level for the draw d: an arc of five
\* coins or a single coin.
CoinsOf(d) ==
    IF d.arc
    THEN [n \in 1..5 |->
            AnimatedCoin(d.x + (n - 1) * 30, 300 - Abs((n - 1) - 2) * 40,
                         d.float_offset)]
    ELSE <<AnimatedCoin(d.x, d.y, d.float_offset)>>

\* The coin loop of generate_level over draws[lo .. hi], in order (split in
\* halves).
RECURSIVE CoinsFrom(_, _, _)
CoinsFrom(draws, lo, hi) ==
    IF lo > hi THEN <<>>
    ELSE IF lo = hi THEN CoinsOf(draws[lo])
    ELSE LET mid == (lo + hi) \div 2
         IN CoinsFrom(draws, lo, mid) \o CoinsFrom(draws, mid + 1, hi)

\* World.__init__ with World.generate_level
World(world_num, rnd) ==
    [world_num |-> world_num,
     level_width |-> level_width(world_num),
     spawn_point |-> <<100, 400>>,
     camera_x |-> 0,
     platforms |-> Terrain(rnd.columns, 1, Len(rnd.columns)),
     enemies |-> [j \in 1..Len(rnd.enemies) |->
                    AnimatedEnemy(rnd.enemies[j].x, rnd.enemies[j].y,
                                  rnd.enemies[j].enemy_type,
                                  rnd.enemies[j].vx)],
     power_ups |-> [j \in 1..Len(rnd.power_ups) |->
                      AnimatedPowerUp(rnd.power_ups[j].x, rnd.power_ups[j].y,
                                      rnd.power_ups[j].power_type,
                                      rnd.power_ups[j].float_offset)],
     coins |-> CoinsFrom(rnd.coins, 1, Len(rnd.coins)),
     fireballs |-> <<>>,
     flag |-> [x |-> level_width(world_num) - 200, y |-> 150,
               w |-> 30, h |-> 300]]

\* update_camera without the upper end of the clamp.
update_camera_unbounded_right(world, player_x) ==
    LET target_x == player_x - SCREEN_WIDTH \div 2
        moved == world.camera_x
                   + Trunc10(target_x * 1000 - world.camera_x)
    IN [world EXCEPT !.camera_x = Max(0, moved)]

\* World.update_camera; camera_x is a float, kept here in thousandths of a
\* pixel (the product with 0.1 truncated), then clamped.
update_camera(world, player_x) ==
    LET target_x == player_x - SCREEN_WIDTH \div 2
        moved == world.camera_x
                   + Trunc10(target_x * 1000 - world.camera_x)
    IN [world EXCEPT !.camera_x =
           Max(0, Min(moved, (world.level_width - SCREEN_WIDTH) * 1000))]

(***************************************************************************)
(* Game                                                                    *)
(*                                                                         *)
(* A Game is a record: game_state, score, high_score, current_world_index, *)
(* world, player, menu_animation.  One more field, log, is a history of    *)
(* the current tick: every enemy contact and every take_damage call of the *)
(* tick appends the situation before and after it (for a contact also      *)
(* whether the player's bottom was above the enemy's centre), and so does  *)
(* every complete_level call and every pickup collected; a projectile      *)
(* removed for its bounces leaves its counter.  No handler reads it.       *)
(***************************************************************************)
NumWorlds == 5

\* Game.__init__
Game ==
    [game_state |-> "MENU", score |-> 0, high_score |-> 0,
     current_world_index |-> 0, world |-> None, player |-> None,
     menu_animation |-> 0, log |-> <<>>]

\* The fields a log entry records.
Snap(g) ==
    [game_state |-> g.game_state, score |-> g.score,
     high_score |-> g.high_score, lives |-> g.player.lives,
     power_up |-> g.player.power_up, coins |-> g.player.coins,
     invincible_timer |-> g.player.invincible_timer,
     fire_cooldown |-> g.player.fire_cooldown,
     fireballs |-> Len(g.world.fireballs),
     camera_x |-> g.world.camera_x,
     x |-> g.player.x, y |-> g.player.y,
     vx |-> g.player.vx, vy |-> g.player.vy,
     falling |-> Falling(g.player),
     enemies |-> Len(g.world.enemies),
     power_ups |-> Len(g.world.power_ups),
     world_coins |-> Len(g.world.coins),
     spawn_point |-> g.world.spawn_point,
     world_index |-> g.current_world_index,
     world_num |-> g.world.world_num,
     at_flag |-> g.world.flag # None /\ colliderect(g.player, g.world.flag)]

Logged(ev, before, after) ==
    [after EXCEPT !.log = Append(after.log, [ev |-> ev, before |-> Snap(before),
                                     after |-> Snap(after)])]

\* start_world that moves the player there is, if any, to the new spawn
\* point instead of making a new one.
start_world_keeps_the_player(g, world_index, rnd) ==
    LET world == World(world_index + 1, rnd[world_index + 1])
    IN [g EXCEPT !.current_world_index = world_index,
                 !.world = world,
                 !.player =
                    IF g.player = None
                    THEN Player(world.spawn_point[1], world.spawn_point[2])
                    ELSE [g.player EXCEPT !.x = world.spawn_point[1],
                                          !.y = world.spawn_point[2],
                                          !.vx = 0, !.vy = 0, !.vy0 = 0,
                                          !.on_ground = FALSE,
                                          !.animation_time = 0]]

\* Game.start_world; rnd gives, for each world number, the draws the level
\* generator makes when it builds that world.
start_world(g, world_index, rnd) ==
    LET world == World(world_index + 1, rnd[world_index + 1])
    IN [g EXCEPT !.current_world_index = world_index,
                 !.world = world,
                 !.player = Player(world.spawn_point[1], world.spawn_point[2])]

\* Game.game_over
game_over(g) ==
    [g EXCEPT !.high_score = Max(g.high_score, g.score),
              !.game_state = "GAME_OVER"]

\* Game.victory
victory(g) ==
    [g EXCEPT !.high_score = Max(g.high_score, g.score),
              !.game_state = "VICTORY"]

\* Game.respawn
respawn(g) ==
    [g EXCEPT !.player =
        [create_character_sprite(
            [g.player EXCEPT !.x = g.world.spawn_point[1],
                             !.y = g.world.spawn_point[2],
                             !.vx = 0, !.vy = 0, !.vy0 = 0,
                             !.power_up = "NONE"])
         EXCEPT !.invincible_timer = 180]]

\* take_damage with the mushroom missing from the list of forms that absorb
\* a hit.
take_damage_mushroom_forgotten(g) ==
    IF g.player.power_up \in {"FIRE_FLOWER", "ICE_FLOWER"}
    THEN [g EXCEPT !.player =
            create_character_sprite(
                [g.player EXCEPT !.power_up = "NONE",
                                 !.invincible_timer = 120])]
    ELSE LET g1 == [g EXCEPT !.player.lives = @ - 1]
         IN IF g1.player.lives <= 0 THEN game_over(g1) ELSE respawn(g1)

\* take_damage with a respawn that keeps the player where they are.
take_damage_respawn_in_place(g) ==
    IF g.player.power_up \in {"MUSHROOM", "FIRE_FLOWER", "ICE_FLOWER"}
    THEN [g EXCEPT !.player =
            create_character_sprite(
                [g.player EXCEPT !.power_up = "NONE",
                                 !.invincible_timer = 120])]
    ELSE LET g1 == [g EXCEPT !.player.lives = @ - 1]
         IN IF g1.player.lives <= 0 THEN game_over(g1)
            ELSE [g1 EXCEPT !.player.vx = 0, !.player.vy = 0,
                            !.player.vy0 = 0,
                            !.player.power_up = "NONE",
                            !.player.invincible_timer = 180]

\* take_damage that ends the game only once the lives are below zero.
take_damage_ends_below_zero(g) ==
    IF g.player.power_up \in {"MUSHROOM", "FIRE_FLOWER", "ICE_FLOWER"}
    THEN [g EXCEPT !.player =
            create_character_sprite(
                [g.player EXCEPT !.power_up = "NONE",
                                 !.invincible_timer = 120])]
    ELSE LET g1 == [g EXCEPT !.player.lives = @ - 1]
         IN IF g1.player.lives < 0 THEN game_over(g1) ELSE respawn(g1)

\* Game.take_damage
take_damage_body(g) ==
    IF g.player.power_up \in {"MUSHROOM", "FIRE_FLOWER", "ICE_FLOWER"}
    THEN [g EXCEPT !.player =
            create_character_sprite(
                [g.player EXCEPT !.power_up = "NONE",
                                 !.invincible_timer = 120])]
    ELSE LET g1 == [g EXCEPT !.player.lives = @ - 1]
         IN IF g1.player.lives <= 0 THEN game_over(g1) ELSE respawn(g1)

take_damage(g) == Logged("take_damage", g, take_damage_body(g))

\* complete_level that advances the index before it tests for the last world.
complete_level_advance_first(g, rnd) ==
    LET g1 == [g EXCEPT !.score = @ + 1000 * (g.current_world_index + 1),
                        !.current_world_index = @ + 1]
    IN IF g1.current_world_index < NumWorlds
       THEN start_world(g1, g1.current_world_index, rnd)
       ELSE victory(g1)

\* complete_level with the bonus of the world that comes next.
complete_level_bonus_of_next(g, rnd) ==
    LET g1 == [g EXCEPT !.score = @ + 1000 * (g.current_world_index + 2)]
    IN IF g1.current_world_index < NumWorlds - 1
       THEN start_world([g1 EXCEPT !.current_world_index = @ + 1],
                        g1.current_world_index + 1, rnd)
       ELSE victory(g1)

\* complete_level that takes the world before the last for the last.
complete_level_victory_early(g, rnd) ==
    LET g1 == [g EXCEPT !.score = @ + 1000 * (g.current_world_index + 1)]
    IN IF g1.current_world_index < NumWorlds - 2
       THEN start_world([g1 EXCEPT !.current_world_index = @ + 1],
                        g1.current_world_index + 1, rnd)
       ELSE victory(g1)

\* Game.complete_level
complete_level(g, rnd) ==
    LET g1 == [g EXCEPT !.score = @ + 1000 * (g.current_world_index + 1)]
    IN IF g1.current_world_index < NumWorlds - 1
       THEN start_world([g1 EXCEPT !.current_world_index = @ + 1],
                        g1.current_world_index + 1, rnd)
       ELSE victory(g1)

\* Game.shoot_fireball
shoot_fireball(g) ==
    LET p == g.player
        direction == IF p.facing_right THEN 1 ELSE -1
        shot(is_ice, cooldown) ==
            [g EXCEPT !.world.fireballs =
                         Append(g.world.fireballs, Fireball(centerx(p) + direction * 20,
                                            centery(p), direction, is_ice)),
                      !.player.fire_cooldown = cooldown]
    IN IF p.fire_cooldown # 0 THEN g
       ELSE IF p.power_up = "FIRE_FLOWER" THEN shot(FALSE, 20)
       ELSE IF p.power_up = "ICE_FLOWER" THEN shot(TRUE, 25)
       ELSE g

(***************************************************************************)
(* Game.handle_collisions, loop by loop.  A pygame Group is iterated over  *)
(* a copy of its members in insertion order, so each loop runs over the    *)
(* sequence as it was when the loop began while removals take effect in    *)
(* the game.                                                               *)
(***************************************************************************)
\* Removes one member equal to e, the first (equal members are
\* interchangeable).
Remove(s, e) ==
    LET found == {i \in 1..Len(s) : s[i] = e}
        first == CHOOSE i \in found : \A j \in found : i <= j
    IN IF found = {} THEN s
       ELSE SubSeq(s, 1, first - 1) \o SubSeq(s, first + 1, Len(s))

\* Puts m in the place of one member equal to e, the first: the member with
\* an attribute assigned.
Flagged(s, e, m) ==
    LET found == {i \in 1..Len(s) : s[i] = e}
        first == CHOOSE i \in found : \A j \in found : i <= j
    IN IF found = {} THEN s ELSE [s EXCEPT ![first] = m]

\* Body of the platform loop for one platform.
PlatformContact(p, pl) ==
    IF colliderect(p, pl) /\ Falling(p)
    THEN [p EXCEPT !.y = pl.y - p.h,
                   !.vy = 0,
                   !.vy0 = 0,
                   !.on_ground = TRUE,
                   !.x = IF pl.is_moving
                         THEN AddTrunc(p.x, pl.move_speed * pl.direction)
                         ELSE p.x]
    ELSE p

\* The platform loop over platforms[lo .. hi], in order (split in halves;
\* comparing the outcome of the first half with p makes TLC evaluate it
\* before the second half starts).
RECURSIVE PlatformLoop(_, _, _, _)
PlatformLoop(p, platforms, lo, hi) ==
    IF lo > hi THEN p
    ELSE IF lo = hi THEN PlatformContact(p, platforms[lo])
    ELSE LET mid == (lo + hi) \div 2
             half == PlatformLoop(p, platforms, lo, mid)
         IN IF half = p
            THEN PlatformLoop(p, platforms, mid + 1, hi)
            ELSE PlatformLoop(half, platforms, mid + 1, hi)

\* The stomp without the bounce: the player goes on falling.
Stomp_keeps_falling(g, e) ==
    [g EXCEPT !.world.enemies =
                 Remove(Flagged(g.world.enemies, e,
                                [e EXCEPT !.alive = FALSE,
                                          !.squash_timer = 10]),
                        [e EXCEPT !.alive = FALSE, !.squash_timer = 10]),
              !.score = @ + 100]

\* The stomp without the removal from the group: the enemy stays, marked.
Stomp_leaves_the_enemy(g, e) ==
    [g EXCEPT !.world.enemies =
                 Flagged(g.world.enemies, e,
                         [e EXCEPT !.alive = FALSE, !.squash_timer = 10]),
              !.score = @ + 100,
              !.player.vy = (JUMP_STRENGTH \div 2) * 10,
              !.player.vy0 = (JUMP_STRENGTH \div 2) * 10]

\* The three outcomes of a contact with an enemy.  A defeated enemy is
\* marked (alive = False) and then removed from the group.
Stomp(g, e) ==
    [g EXCEPT !.world.enemies =
                 Remove(Flagged(g.world.enemies, e,
                                [e EXCEPT !.alive = FALSE,
                                          !.squash_timer = 10]),
                        [e EXCEPT !.alive = FALSE, !.squash_timer = 10]),
              !.score = @ + 100,
              !.player.vy = (JUMP_STRENGTH \div 2) * 10,
              !.player.vy0 = (JUMP_STRENGTH \div 2) * 10]

InvincibleKill(g, e) ==
    [g EXCEPT !.world.enemies =
                 Remove(Flagged(g.world.enemies, e, [e EXCEPT !.alive = FALSE]),
                        [e EXCEPT !.alive = FALSE]),
              !.score = @ + 200]

\* EnemyContact with the invincibility test ahead of the stomp test.
EnemyContactInvincibleFirst(g, e) ==
    IF ~e.alive THEN g
    ELSE IF ~colliderect(g.player, e) THEN g
    ELSE LET after ==
                 IF g.player.invincible_timer > 0
                 THEN InvincibleKill(g, e)
                 ELSE IF Falling(g.player) /\ bottom(g.player) < centery(e)
                 THEN Stomp(g, e)
                 ELSE take_damage(g)
         IN [after EXCEPT !.log =
                Append(after.log, [ev |-> "enemy_contact",
                           above |-> bottom(g.player) < centery(e),
                           before |-> Snap(g), after |-> Snap(after)])]

\* Body of the enemy loop for one enemy.
EnemyContact(g, e) ==
    IF ~e.alive THEN g
    ELSE IF ~colliderect(g.player, e) THEN g
    ELSE LET after ==
                 IF Falling(g.player) /\ bottom(g.player) < centery(e)
                 THEN Stomp(g, e)
                 ELSE IF g.player.invincible_timer > 0
                 THEN InvincibleKill(g, e)
                 ELSE take_damage(g)
         IN [after EXCEPT !.log =
                Append(after.log, [ev |-> "enemy_contact",
                           above |-> bottom(g.player) < centery(e),
                           before |-> Snap(g), after |-> Snap(after)])]

\* The enemy, power-up and coin loops over members lo .. hi of the group as
\* it was when the loop began, in order (split in halves, as PlatformLoop).
RECURSIVE EnemyLoop(_, _, _, _)
EnemyLoop(g, enemies, lo, hi) ==
    IF lo > hi THEN g
    ELSE IF lo = hi THEN EnemyContact(g, enemies[lo])
    ELSE LET mid == (lo + hi) \div 2
             half == EnemyLoop(g, enemies, lo, mid)
         IN IF half = g
            THEN EnemyLoop(g, enemies, mid + 1, hi)
            ELSE EnemyLoop(half, enemies, mid + 1, hi)

\* The power-up loop's body with a Star that leaves the timer as it is.
PowerUpContact_star_without_timer(g, u) ==
    IF ~u.collected /\ colliderect(g.player, u)
    THEN Logged("collect_power_up", g,
            [g EXCEPT !.world.power_ups =
                         Remove(Flagged(g.world.power_ups, u,
                                        [u EXCEPT !.collected = TRUE]),
                                [u EXCEPT !.collected = TRUE]),
                      !.player = create_character_sprite(
                          [g.player EXCEPT !.power_up = u.power_type]),
                      !.score = @ + 500])
    ELSE g

\* Body of the power-up loop for one power-up.
PowerUpContact(g, u) ==
    IF ~u.collected /\ colliderect(g.player, u)
    THEN Logged("collect_power_up", g,
            [g EXCEPT !.world.power_ups =
                         Remove(Flagged(g.world.power_ups, u,
                                        [u EXCEPT !.collected = TRUE]),
                                [u EXCEPT !.collected = TRUE]),
                      !.player = create_character_sprite(
                          [g.player EXCEPT
                              !.invincible_timer =
                                  IF u.power_type = "STAR" THEN 600 ELSE @,
                              !.power_up = u.power_type]),
                      !.score = @ + 500])
    ELSE g

RECURSIVE PowerUpLoop(_, _, _, _)
PowerUpLoop(g, power_ups, lo, hi) ==
    IF lo > hi THEN g
    ELSE IF lo = hi THEN PowerUpContact(g, power_ups[lo])
    ELSE LET mid == (lo + hi) \div 2
             half == PowerUpLoop(g, power_ups, lo, mid)
         IN IF half = g
            THEN PowerUpLoop(g, power_ups, mid + 1, hi)
            ELSE PowerUpLoop(half, power_ups, mid + 1, hi)

\* The coin loop's body with the hundredth coin counted before the count
\* goes back to zero.
CoinContact_wraps_late(g, c) ==
    IF ~c.collected /\ colliderect(g.player, c)
    THEN LET coins == g.player.coins + 1
         IN Logged("collect_coin", g,
               [g EXCEPT !.world.coins = Remove(g.world.coins, c),
                         !.score = @ + 50,
                         !.player.coins = IF coins > 100 THEN 0 ELSE coins,
                         !.player.lives = IF coins > 100 THEN @ + 1 ELSE @])
    ELSE g

\* Body of the coin loop for one coin.
CoinContact(g, c) ==
    IF ~c.collected /\ colliderect(g.player, c)
    THEN LET coins == g.player.coins + 1
         IN Logged("collect_coin", g,
               [g EXCEPT !.world.coins =
                            Remove(Flagged(g.world.coins, c,
                                           [c EXCEPT !.collected = TRUE]),
                                   [c EXCEPT !.collected = TRUE]),
                         !.score = @ + 50,
                         !.player.coins = IF coins >= 100 THEN 0 ELSE coins,
                         !.player.lives = IF coins >= 100 THEN @ + 1 ELSE @])
    ELSE g

RECURSIVE CoinLoop(_, _, _, _)
CoinLoop(g, coins, lo, hi) ==
    IF lo > hi THEN g
    ELSE IF lo = hi THEN CoinContact(g, coins[lo])
    ELSE LET mid == (lo + hi) \div 2
             half == CoinLoop(g, coins, lo, mid)
         IN IF half = g
            THEN CoinLoop(g, coins, mid + 1, hi)
            ELSE CoinLoop(half, coins, mid + 1, hi)

\* The platform loop of one fireball without the break that follows the
\* removal.
RECURSIVE Bounce_without_break(_, _, _)
Bounce_without_break(f, platforms, k) ==
    IF k > Len(platforms) THEN <<f, f.bounces >= f.max_bounces>>
    ELSE IF colliderect(f, platforms[k])
    THEN Bounce_without_break([f EXCEPT !.vy = -80, !.bounces = @ + 1],
                              platforms, k + 1)
    ELSE Bounce_without_break(f, platforms, k + 1)

\* The platform loop of one fireball: the pair of the fireball and whether
\* it has been removed (which ends the loop).
RECURSIVE Bounce(_, _, _)
Bounce(f, platforms, k) ==
    IF k > Len(platforms) THEN <<f, FALSE>>
    ELSE IF colliderect(f, platforms[k])
    THEN LET f1 == [f EXCEPT !.vy = -80, !.bounces = @ + 1]
         IN IF f1.bounces >= f1.max_bounces THEN <<f1, TRUE>>
            ELSE Bounce(f1, platforms, k + 1)
    ELSE Bounce(f, platforms, k + 1)

\* A hit of the fireball f on the enemy e: the enemy goes, the score grows;
\* the entry of the history tells whether f had left the group before.
FireballHit(g, f, removed, e) ==
    LET after == [g EXCEPT !.world.enemies =
                              Remove(Flagged(g.world.enemies, e,
                                             [e EXCEPT !.alive = FALSE]),
                                     [e EXCEPT !.alive = FALSE]),
                           !.score = @ + 150]
    IN [after EXCEPT !.log =
           Append(g.log, [ev |-> "fireball_hit", fireball |-> f,
                          gone |-> removed, before |-> Snap(g),
                          after |-> Snap(after)])]

\* The enemy loop of one fireball f; the result is the pair of the game and
\* whether f has been removed.
RECURSIVE FireballHits(_, _, _, _, _)
FireballHits(g, f, removed, enemies, k) ==
    IF k > Len(enemies) THEN <<g, removed>>
    ELSE IF enemies[k].alive /\ colliderect(f, enemies[k])
    THEN FireballHits(FireballHit(g, f, removed, enemies[k]),
                      f, TRUE, enemies, k + 1)
    ELSE FireballHits(g, f, removed, enemies, k + 1)

\* The log entry of a fireball f that the platform loop b removed: its
\* counter then, and how many platforms it overlapped.
BouncedOut(g, f, b) ==
    IF b[2]
    THEN [g EXCEPT !.log =
            Append(g.log,
                   [ev |-> "bounced_out", bounces |-> b[1].bounces,
                    before |-> f.bounces,
                    overlapped |->
                        Cardinality({j \in 1..Len(g.world.platforms) :
                                       colliderect(f, g.world.platforms[j])})])]
    ELSE g

\* The fireball loop; kept are the fireballs still in the group.
RECURSIVE FireballLoop(_, _, _, _)
FireballLoop(g, fireballs, k, kept) ==
    IF k > Len(fireballs) THEN [g EXCEPT !.world.fireballs = kept]
    ELSE LET b == Bounce(fireballs[k], g.world.platforms, 1)
             h == FireballHits(BouncedOut(g, fireballs[k], b), b[1], b[2],
                               g.world.enemies, 1)
         IN FireballLoop(h[1], fireballs, k + 1,
                         IF h[2] THEN kept ELSE Append(kept, b[1]))

\* The platform loop and the update of the platforms that follows it.
PlatformStage(g) ==
    [g EXCEPT !.player =
                 PlatformLoop([g.player EXCEPT !.on_ground = FALSE],
                              g.world.platforms, 1, Len(g.world.platforms)),
              !.world.platforms =
                 UpdateAll("platform", g.world.platforms,
                           1, Len(g.world.platforms))]

EnemyStage(g) == EnemyLoop(g, g.world.enemies, 1, Len(g.world.enemies))

PowerUpStage(g) ==
    PowerUpLoop(g, g.world.power_ups, 1, Len(g.world.power_ups))

CoinStage(g) == CoinLoop(g, g.world.coins, 1, Len(g.world.coins))

FireballStage(g) == FireballLoop(g, g.world.fireballs, 1, <<>>)

\* The flag test that ends handle_collisions.
FlagStage(g, rnd) ==
    IF g.world.flag # None /\ colliderect(g.player, g.world.flag)
    THEN Logged("complete_level", g, complete_level(g, rnd))
    ELSE g

\* Game.handle_collisions
handle_collisions(g, rnd) ==
    FlagStage(
        FireballStage(CoinStage(PowerUpStage(EnemyStage(PlatformStage(g))))),
        rnd)

\* The entry of the history for a Star that Player.update takes away.
StarExpiry(g) ==
    IF g.player.power_up = "STAR" /\ Player_update(g.player).power_up = "NONE"
    THEN <<[ev |-> "star_expired", before |-> Snap(g),
            after |-> Snap([g EXCEPT !.player = Player_update(g.player)])]>>
    ELSE <<>>

\* The update loops without the removal of the fireballs that have left the
\* level.
UpdateSprites_keeps_strays(g) ==
    [g EXCEPT
       !.log = StarExpiry(g),
       !.player = Player_update(g.player),
       !.world.enemies =
           UpdateAll("enemy", g.world.enemies, 1, Len(g.world.enemies)),
       !.world.coins =
           UpdateAll("coin", g.world.coins, 1, Len(g.world.coins)),
       !.world.power_ups =
           UpdateAll("power_up", g.world.power_ups, 1,
                     Len(g.world.power_ups)),
       !.world.fireballs =
           UpdateAll("fireball", g.world.fireballs, 1,
                     Len(g.world.fireballs))]

\* The fireballs that have left the level, after their update: one entry of
\* the history for each.
Strays(g) ==
    LET gone == SelectSeq(UpdateAll("fireball", g.world.fireballs, 1,
                                    Len(g.world.fireballs)),
                          LAMBDA f : f.x < 0 \/ f.x > g.world.level_width)
    IN [j \in 1..Len(gone) |-> [ev |-> "left_level", fireball |-> gone[j]]]

\* The update loops of Game.update: player, enemies, coins, power-ups and
\* fireballs (a fireball that has left the level is removed).
UpdateSprites(g) ==
    [g EXCEPT
       !.log = StarExpiry(g) \o Strays(g),
       !.player = Player_update(g.player),
       !.world.enemies =
           UpdateAll("enemy", g.world.enemies, 1, Len(g.world.enemies)),
       !.world.coins =
           UpdateAll("coin", g.world.coins, 1, Len(g.world.coins)),
       !.world.power_ups =
           UpdateAll("power_up", g.world.power_ups, 1,
                     Len(g.world.power_ups)),
       !.world.fireballs =
           SelectSeq(UpdateAll("fireball", g.world.fireballs, 1,
                               Len(g.world.fireballs)),
                     LAMBDA f : ~(f.x < 0 \/ f.x > g.world.level_width))]

\* The clamp of the player's x to the level.
ClampPlayer(g) ==
    [g EXCEPT !.player.x =
        Max(0, Min(g.player.x, g.world.level_width - g.player.w))]

\* The fall below the screen, with a test of the invincibility timer that
\* the code does not make.
FallCheck_spares_invincible(g) ==
    IF g.player.y > SCREEN_HEIGHT /\ g.player.invincible_timer = 0
    THEN Logged("fell_out", g, take_damage(g))
    ELSE g

\* The fall below the screen.
FallCheck(g) ==
    IF g.player.y > SCREEN_HEIGHT
    THEN Logged("fell_out", g, take_damage(g))
    ELSE g

CameraStage(g) ==
    [g EXCEPT !.world = update_camera(g.world, centerx(g.player))]

\* Game.update for a tick in the PLAYING state
update_playing(g, rnd) ==
    CameraStage(
        FallCheck(ClampPlayer(handle_collisions(UpdateSprites(g), rnd))))

\* update with an early return for the menu only.
update_returns_in_menu_only(g, rnd) ==
    IF g.game_state = "MENU"
    THEN [g EXCEPT !.menu_animation = @ + 1]
    ELSE update_playing(g, rnd)

\* Game.update
update(g, rnd) ==
    IF g.game_state # "PLAYING"
    THEN [g EXCEPT !.menu_animation = @ + 1]
    ELSE update_playing(g, rnd)

\* pygame.Rect.collidepoint
collidepoint(r, pos) ==
    /\ r.x <= pos[1] /\ pos[1] < r.x + r.w
    /\ r.y <= pos[2] /\ pos[2] < r.y + r.h

\* The inputs of a frame.  keys is the set of keys pygame.key.get_pressed()
\* reports held; mouse.pressed is pygame.mouse.get_pressed()[0] and mouse.pos
\* is pygame.mouse.get_pos().
WorldKey(i) ==
    CASE i = 1 -> "K_1" [] i = 2 -> "K_2" [] i = 3 -> "K_3"
      [] i = 4 -> "K_4" [] i = 5 -> "K_5"

\* The rectangle of the menu entry of world i (0-based).
MenuRect(i) ==
    [x |-> SCREEN_WIDTH \div 2 - 250, y |-> 300 + i * 80 - 20,
     w |-> 500, h |-> 60]

\* The world a loop of handle_input selects: the first of the indices whose
\* test succeeds (chosen), or -1.
FirstWorld(chosen) ==
    IF chosen # {}
    THEN CHOOSE i \in chosen : \A j \in chosen : i <= j
    ELSE -1

\* A selection that leaves the score of the session before.
SelectedKeepsScore(g, i, rnd) ==
    IF i < 0 THEN g
    ELSE [start_world(g, i, rnd) EXCEPT !.game_state = "PLAYING"]

\* The two lines that follow start_world in both loops.
Selected(g, i, rnd) ==
    IF i < 0 THEN g
    ELSE [start_world(g, i, rnd) EXCEPT !.game_state = "PLAYING",
                                        !.score = 0]

\* Game.handle_input.  Both loops of the MENU branch run; the level the first
\* generates is dropped when the second selects.
handle_input(g, keys, mouse, rnd) ==
    CASE g.game_state = "MENU" ->
           LET byKey == {i \in 0..4 : WorldKey(i + 1) \in keys
                                            /\ i < NumWorlds}
               byMouse == {i \in 0..(NumWorlds - 1) :
                              collidepoint(MenuRect(i), mouse.pos)}
               g1 == Selected(g, FirstWorld(byKey), rnd)
           IN IF mouse.pressed
              THEN Selected(g1, FirstWorld(byMouse), rnd)
              ELSE g1
      [] g.game_state = "PLAYING" ->
           LET p0 == [g.player EXCEPT !.vx = 0]
               p1 == IF "K_LEFT" \in keys
                     THEN [p0 EXCEPT !.vx = -MOVE_SPEED * 10,
                                     !.facing_right = FALSE]
                     ELSE p0
               p2 == IF "K_RIGHT" \in keys
                     THEN [p1 EXCEPT !.vx = MOVE_SPEED * 10,
                                     !.facing_right = TRUE]
                     ELSE p1
               p3 == IF "K_LSHIFT" \in keys \/ "K_RSHIFT" \in keys
                     THEN [p2 EXCEPT !.vx = Trunc10(p2.vx * 17)]
                     ELSE p2
               p4 == IF "K_SPACE" \in keys \/ "K_UP" \in keys
                     THEN Player_jump(p3) ELSE p3
               g1 == [g EXCEPT !.player = p4]
           IN IF "K_x" \in keys THEN shoot_fireball(g1) ELSE g1
      [] g.game_state \in {"GAME_OVER", "VICTORY"} ->
           IF "K_SPACE" \in keys
           THEN [g EXCEPT !.game_state = "MENU", !.menu_animation = 0]
           ELSE g

\* The event loop with an Escape that returns to the menu from every mode.
RunEventEscapeToMenu(g, running, event) ==
    CASE event = "QUIT" -> <<g, FALSE>>
      [] event = "K_ESCAPE" -> <<[g EXCEPT !.game_state = "MENU"], running>>
      [] OTHER -> <<g, running>>

\* The event loop with an Escape that records the score of the session it
\* abandons.
RunEventEscapeRecords(g, running, event) ==
    CASE event = "QUIT" -> <<g, FALSE>>
      [] event = "K_ESCAPE" ->
           IF g.game_state = "PLAYING"
           THEN <<[g EXCEPT !.game_state = "MENU",
                            !.high_score = Max(g.high_score, g.score)],
                  running>>
           ELSE <<g, FALSE>>
      [] OTHER -> <<g, running>>

\* The event loop of Game.run for one event; the pair of the game and the
\* loop variable running.
RunEvent(g, running, event) ==
    CASE event = "QUIT" -> <<g, FALSE>>
      [] event = "K_ESCAPE" ->
           IF g.game_state = "PLAYING"
           THEN <<[g EXCEPT !.game_state = "MENU"], running>>
           ELSE <<g, FALSE>>
      [] OTHER -> <<g, running>>

RECURSIVE RunEvents(_, _, _, _)
RunEvents(g, running, events, k) ==
    IF k > Len(events) THEN <<g, running>>
    ELSE LET r == RunEvent(g, running, events[k])
         IN RunEvents(r[1], r[2], events, k + 1)

(***************************************************************************)
(* The main loop, Game.run.  One iteration is three steps: the event loop, *)
(* handle_input and update (render and clock.tick change nothing here).    *)
(*   game      the Game object                                             *)
(*   running   the loop variable of Game.run                               *)
(*   pc        the next step of the iteration, "done" after the loop       *)
(*   started   how many times a world has been entered from the menu       *)
(*             (a counter of the model, bounded by MaxSessions)            *)
(*   scenario  the environment the loop runs in (never changed)            *)
(* The steps take their inputs from an environment: EventsOf(g), the       *)
(* sequences of events pygame.event.get() may return in g; Inputs(g), the  *)
(* pairs <<keys, mouse>> handle_input may read in g; DrawsOf(g), the       *)
(* outcomes of the draws of a level generated from g; TicksOf(g), how many *)
(* ticks the current level is followed for.                                *)
(***************************************************************************)
VARIABLES game, running, pc, started, scenario

vars == <<game, running, pc, started, scenario>>

MaxMenuTicks == 1
MaxSessions == 2

Init ==
    /\ game = Game
    /\ running = TRUE
    /\ pc = "events"
    /\ started = 0
    /\ scenario = "tour"

(***************************************************************************)
(* The environment the claims are checked in: one level per world number,  *)
(* each with a player who follows a plan with a few free decisions.        *)
(*   world 1      low ground with a pit at i = 300 and two piranhas just   *)
(*                beyond it; the player drops into the pit while lives     *)
(*                remain to spare, then waits beyond the piranhas and      *)
(*                runs back into them at a time of their choosing;         *)
(*   worlds 2, 3  high ground, a power-up (a star in world 2; a mushroom,  *)
(*                a fire flower or an ice flower in world 3) over a        *)
(*                piranha, and a pit further on; the                       *)
(*                player runs, jumps for the power-up at a time of their   *)
(*                choosing and stops running at a time of their choosing;  *)
(*   worlds 4, 5  high ground all the way; the player runs to the flag and *)
(*                jumps near it at a time of their choosing.               *)
(***************************************************************************)
Take(s, n) == SubSeq(s, 1, Min(n, Len(s)))

\* The draws of the terrain loop for ground of one height, without floating
\* platforms, and with the columns in pits left out.
Ground(world_num, height, pits) ==
    [k \in 1..NumColumns(world_num) |->
        [solid |-> k \notin pits, height |-> height, float |-> None]]

Piranha(x) == [x |-> x, y |-> 100, enemy_type |-> "PIRANHA", vx |-> 2]
Goomba(x) == [x |-> x, y |-> 100, enemy_type |-> "GOOMBA", vx |-> 2]
PowerUpAt(x, y, power_type) ==
    [x |-> x, y |-> y, power_type |-> power_type, float_offset |-> 0]
CoinAt(x, y) == [arc |-> FALSE, x |-> x, y |-> y, float_offset |-> 0]
CoinArc(x) == [arc |-> TRUE, x |-> x, float_offset |-> 0]

\* The draws of the three entity loops, before the model's caps.
LevelEnemies(world_num) ==
    CASE world_num = 1 ->
           <<Piranha(407), Piranha(416), Goomba(2000), Goomba(2100)>>
      [] world_num \in {2, 3} ->
           <<Piranha(500), Goomba(2000), Goomba(2100), Goomba(2200)>>
      [] OTHER -> <<Goomba(2000), Goomba(2100), Goomba(2200), Goomba(2300)>>

LevelPowerUps(world_num, kind) ==
    CASE world_num = 2 ->
           <<PowerUpAt(500, 400, "STAR"), PowerUpAt(3000, 200, "MUSHROOM"),
             PowerUpAt(3100, 200, "MUSHROOM")>>
      [] world_num = 3 ->
           <<PowerUpAt(500, 400, kind), PowerUpAt(3000, 200, "STAR"),
             PowerUpAt(3100, 200, "STAR")>>
      [] OTHER ->
           <<PowerUpAt(3000, 200, "FIRE_FLOWER"),
             PowerUpAt(3100, 200, "ICE_FLOWER"),
             PowerUpAt(3200, 200, "MUSHROOM")>>

LevelCoins(world_num) == <<CoinAt(3000, 150), CoinArc(3100), CoinAt(3300, 150)>>

LevelColumns(world_num) ==
    CASE world_num = 1 -> Ground(world_num, 100, {4})
      [] world_num \in {2, 3} -> Ground(world_num, 200, {8})
      [] OTHER -> Ground(world_num, 200, {})

Level(world_num, kind) ==
    [columns |-> LevelColumns(world_num),
     enemies |-> Take(LevelEnemies(world_num),
                      Min(enemy_count(world_num), MaxEnemies)),
     power_ups |-> Take(LevelPowerUps(world_num, kind),
                        Min(power_count(world_num), MaxPowerUps)),
     coins |-> Take(LevelCoins(world_num),
                    Min(coin_count(world_num), MaxCoinDraws))]

\* The draws of a level entered from the menu, and of a level entered by
\* completing the level before it.
Draws ==
    {[world_num \in 1..NumWorlds |-> Level(world_num, kind)] :
        kind \in BigPowerUps}
NextLevelDraws == {[world_num \in 1..NumWorlds |-> Level(world_num, "MUSHROOM")]}

\* The keys held in a frame.
Idle == {}
RunRight == {"K_RIGHT", "K_LSHIFT"}
RunLeft == {"K_LEFT", "K_RSHIFT"}
RunRightJump == {"K_RIGHT", "K_LSHIFT", "K_SPACE"}

(***************************************************************************)
(* The trials: environments with levels of full size (FullDraw), each      *)
(* followed for a short time.                                              *)
(*   levels   any world, generated from draws at the ends of their ranges: *)
(*            entities at the least and the greatest x, coin draws that    *)
(*            are arcs or single coins, a floating platform over the last  *)
(*            column; the player stands still.                             *)
(*   coins    world 1 with a floating platform over the column at x = 500  *)
(*            and coin arcs above it, all at the same place; the player    *)
(*            runs and jumps without a pause, onto the platform and        *)
(*            through the coins.                                           *)
(*   star     world 1 with a Star in the way of the first jump and a       *)
(*            second power-up (a Star or a Mushroom) a little further;     *)
(*            the player runs and jumps into the Star, stops at any time   *)
(*            after that or goes on into the second power-up, and waits.   *)
(*   fire     world 1 with a Fire Flower in the way of the first jump; the *)
(*            player takes it, stops at once or a little further, and      *)
(*            shoots at any time while standing, more than once if the     *)
(*            cooldown allows; the fireballs bounce along the ground       *)
(*            columns, at times over two of them at once.                  *)
(*   piranhas world 1 with two piranhas side by side near the start, which *)
(*            sink slowly to the ground and below; the player waits at the *)
(*            spawn point and sets off at one of several times, to meet    *)
(*            them from the side or from above, and again after a respawn. *)
(*   platforms world 1 with a moving platform (sideways or up and down)    *)
(*            over the sixth column, a Mushroom (in one level a Star) on   *)
(*            the way to it and a pit too wide to jump behind it; the      *)
(*            player sets off at one of                                    *)
(*            several times, runs and jumps, lands on the platform or      *)
(*            passes it, and falls into the pit, life after life.          *)
(*   shots    world 1 with two piranhas side by side which the player      *)
(*            jumps over on the way to a Fire Flower; the player runs on,  *)
(*            stops at one of a few places, turns and shoots back at them: *)
(*            the fireball meets one piranha or both in a tick, in flight  *)
(*            or at its third bounce.                                      *)
(* One more environment, "flight", is followed until every projectile has  *)
(* had the time to cross the level: world 1 as in "shots", but without     *)
(* ground from i = 1300 on; the player takes the Fire Flower, stops at one *)
(* of a few places and shoots to the left or, a few times, to the right,   *)
(* where a fireball falls below the ground and meets nothing any more.     *)
(* And one, "finish", is followed to the flag of world 1 and a few ticks   *)
(* into world 2: a pit of three columns which the player jumps or, with    *)
(* all lives left, falls into once; a Star or a Fire Flower and coins      *)
(* above the pit; the player runs on, jumps before the flag and shoots on  *)
(* the way up to it.                                                       *)
(***************************************************************************)
Trials ==
    {"levels", "coins", "star", "fire", "piranhas", "platforms", "shots"}

LevelsTicks == 2
LevelsArcs == 7

\* The draws of a floating platform that does not move.
FloatAt(dx, dy, width) ==
    [dx |-> dx, dy |-> dy, width |-> width, moving |-> FALSE,
     move_range |-> 100, move_speed |-> 10, vertical |-> FALSE]

\* One of two values in turn.
Alternate(j, a, b) == IF j % 2 = 1 THEN a ELSE b

LevelsColumns(world_num, edge) ==
    [k \in 1..NumColumns(world_num) |->
        [solid |-> k \notin {2, 9, 20},
         height |-> Alternate(k, 200, 100),
         float |-> IF k = NumColumns(world_num)
                   THEN IF edge THEN FloatAt(50, 350, 150) ELSE None
                   ELSE IF k % 5 = 0 THEN FloatAt(-50, 180, 80) ELSE None]]

LevelsDraw(world_num, arcs, edge) ==
    LET W == level_width(world_num)
        types == Min(world_num + 2, Len(EnemyType))
    IN [columns |-> LevelsColumns(world_num, edge),
        enemies |->
            [j \in 1..enemy_count(world_num) |->
                [x |-> Alternate(j, 400, W - 300), y |-> Alternate(j, 100, 400),
                 enemy_type |-> EnemyType[1 + (j % types)],
                 vx |-> Alternate(j, -2, 2)]],
        power_ups |->
            [j \in 1..power_count(world_num) |->
                PowerUpAt(Alternate(j, 500, W - 400), Alternate(j, 200, 400),
                          CASE j % 4 = 0 -> "MUSHROOM" [] j % 4 = 1 -> "STAR"
                            [] j % 4 = 2 -> "FIRE_FLOWER"
                            [] OTHER -> "ICE_FLOWER")],
        coins |->
            [j \in 1..coin_count(world_num) |->
                IF j <= arcs THEN CoinArc(Alternate(j, W - 500, 300))
                ELSE CoinAt(Alternate(j, W - 100, 200),
                            Alternate(j, 150, 450))]]

LevelsDraws ==
    {[world_num \in 1..NumWorlds |-> LevelsDraw(world_num, arcs, edge)] :
        arcs \in {0, 1, LevelsArcs}, edge \in BOOLEAN}

\* Level-ground columns of a trial, the k-th with a floating platform.
FlatColumns(world_num, k, float) ==
    [j \in 1..NumColumns(world_num) |->
        [solid |-> TRUE, height |-> 200,
         float |-> IF j = k THEN float ELSE None]]

\* Enemies and power-ups of a trial that stay out of the way.
FarEnemies(world_num) ==
    [j \in 1..enemy_count(world_num) |->
        [x |-> level_width(world_num) - 300, y |-> 400,
         enemy_type |-> "GOOMBA", vx |-> 2]]

FarPowerUps(world_num) ==
    [j \in 1..power_count(world_num) |->
        PowerUpAt(level_width(world_num) - 400, 200, "MUSHROOM")]

CoinsTicks == 50
CoinsArcs == 25

CoinsDraw(world_num, arcs) ==
    [columns |-> FlatColumns(world_num, 6, FloatAt(-50, 180, 150)),
     enemies |-> FarEnemies(world_num),
     power_ups |-> FarPowerUps(world_num),
     coins |->
        [j \in 1..coin_count(world_num) |->
            IF j <= arcs THEN CoinArc(500)
            ELSE CoinAt(level_width(world_num) - 100, 150)]]

CoinsDraws ==
    {[world_num \in 1..NumWorlds |-> CoinsDraw(world_num, arcs)] :
        arcs \in {CoinsArcs, coin_count(1)}}

StarTicks == 650

\* Coins of a trial that stay out of the way.
FarCoins(world_num) ==
    [j \in 1..coin_count(world_num) |->
        CoinAt(level_width(world_num) - 100, 150)]

StarDraw(world_num, second) ==
    [columns |-> FlatColumns(world_num, 0, None),
     enemies |-> FarEnemies(world_num),
     power_ups |->
        [j \in 1..power_count(world_num) |->
            CASE j = 1 -> PowerUpAt(500, 400, "STAR")
              [] j = 2 -> PowerUpAt(560, 400, second)
              [] OTHER -> PowerUpAt(level_width(world_num) - 400, 200,
                                    "MUSHROOM")],
     coins |-> FarCoins(world_num)]

StarDraws ==
    {[world_num \in 1..NumWorlds |-> StarDraw(world_num, second)] :
        second \in {"STAR", "MUSHROOM"}}

\* Run and jump until the Star is taken; then stop at any time, and for
\* good; with the second power-up taken, stop.
StarPlan(g) ==
    IF g.score = 0 THEN {RunRightJump}
    ELSE IF g.score >= 1000 \/ g.player.vx = 0 THEN {Idle}
    ELSE {Idle, RunRightJump}

FireTicks == 135
FireLastShot == 62

FireDraw(world_num) ==
    [columns |-> FlatColumns(world_num, 0, None),
     enemies |-> FarEnemies(world_num),
     power_ups |->
        [j \in 1..power_count(world_num) |->
            IF j = 1 THEN PowerUpAt(500, 400, "FIRE_FLOWER")
            ELSE PowerUpAt(level_width(world_num) - 400, 200, "MUSHROOM")],
     coins |-> FarCoins(world_num)]

FireDraws == {[world_num \in 1..NumWorlds |-> FireDraw(world_num)]}

\* Run and jump until the flower is taken; stop then or before x = 500;
\* standing, shoot at any time up to tick FireLastShot.
FirePlan(g) ==
    IF g.score = 0 THEN {RunRightJump}
    ELSE IF g.player.vx # 0
    THEN IF g.player.x < 500 THEN {Idle, RunRight} ELSE {Idle}
    ELSE IF g.player.animation_time <= FireLastShot THEN {Idle, {"K_x"}}
    ELSE {Idle}

PiranhasTicks == 170
PiranhasWait == 60
PiranhasEvery == 20

PiranhasDraw(world_num) ==
    [columns |-> FlatColumns(world_num, 0, None),
     enemies |->
        [j \in 1..enemy_count(world_num) |->
            CASE j = 1 -> [x |-> 430, y |-> 100, enemy_type |-> "PIRANHA",
                           vx |-> 2]
              [] j = 2 -> [x |-> 432, y |-> 100, enemy_type |-> "PIRANHA",
                           vx |-> 2]
              [] OTHER -> [x |-> level_width(world_num) - 300, y |-> 400,
                           enemy_type |-> "GOOMBA", vx |-> 2]],
     power_ups |-> FarPowerUps(world_num),
     coins |-> FarCoins(world_num)]

PiranhasDraws == {[world_num \in 1..NumWorlds |-> PiranhasDraw(world_num)]}

\* Stand still; from tick PiranhasWait on, set off at any tick that is a
\* multiple of PiranhasEvery, and keep running.
PiranhasPlan(g) ==
    IF g.player.vx # 0 THEN {RunRight}
    ELSE IF /\ g.player.animation_time >= PiranhasWait
            /\ g.player.animation_time % PiranhasEvery = 0
    THEN {Idle, RunRight}
    ELSE {Idle}

PlatformsTicks == 330
PlatformsWait == 40
PlatformsEvery == 20
PlatformsPit == 10..16

\* The draws of a floating platform that moves.
MovingFloatAt(dx, dy, width, move_range, move_speed, vertical) ==
    [dx |-> dx, dy |-> dy, width |-> width, moving |-> TRUE,
     move_range |-> move_range, move_speed |-> move_speed,
     vertical |-> vertical]

PlatformsDraw(world_num, move_range, move_speed, vertical, power_type) ==
    [columns |->
        [j \in 1..NumColumns(world_num) |->
            [solid |-> j \notin PlatformsPit, height |-> 200,
             float |-> IF j = 6
                       THEN MovingFloatAt(-50, 180, 150, move_range,
                                          move_speed, vertical)
                       ELSE None]],
     enemies |-> FarEnemies(world_num),
     power_ups |->
        [j \in 1..power_count(world_num) |->
            IF j = 1 THEN PowerUpAt(500, 400, power_type)
            ELSE PowerUpAt(level_width(world_num) - 400, 200, "MUSHROOM")],
     coins |-> FarCoins(world_num)]

PlatformsDraws ==
    {[world_num \in 1..NumWorlds |->
         PlatformsDraw(world_num, m[1], m[2], vertical,
                       IF vertical /\ m[1] = 104 THEN "STAR"
                       ELSE "MUSHROOM")] :
        m \in {<<100, 15>>, <<104, 25>>}, vertical \in BOOLEAN}

\* With all lives left, stand still and set off at any tick up to
\* PlatformsWait that is a multiple of PlatformsEvery; once off, and after
\* every respawn, run and jump.
PlatformsPlan(g) ==
    IF /\ g.player.vx = 0
       /\ g.player.lives = 3
       /\ g.player.animation_time < PlatformsWait
    THEN IF g.player.animation_time % PlatformsEvery = 0
         THEN {Idle, RunRightJump}
         ELSE {Idle}
    ELSE {RunRightJump}

ShotsTicks == 180
ShotsFrom == {630, 650, 1090}

ShotsDraw(world_num) ==
    [columns |-> FlatColumns(world_num, 0, None),
     enemies |->
        [j \in 1..enemy_count(world_num) |->
            CASE j = 1 -> [x |-> 412, y |-> 100, enemy_type |-> "PIRANHA",
                           vx |-> 2]
              [] j = 2 -> [x |-> 414, y |-> 100, enemy_type |-> "PIRANHA",
                           vx |-> 2]
              [] OTHER -> [x |-> level_width(world_num) - 300, y |-> 400,
                           enemy_type |-> "GOOMBA", vx |-> 2]],
     power_ups |->
        [j \in 1..power_count(world_num) |->
            IF j = 1 THEN PowerUpAt(500, 400, "FIRE_FLOWER")
            ELSE PowerUpAt(level_width(world_num) - 400, 200, "MUSHROOM")],
     coins |-> FarCoins(world_num)]

ShotsDraws == {[world_num \in 1..NumWorlds |-> ShotsDraw(world_num)]}

\* Run and jump until the flower is taken, then run; at one of the places
\* ShotsFrom turn left and shoot, or run on; after the shot, stand.
ShotsPlan(g) ==
    IF g.player.power_up # "FIRE_FLOWER" THEN {RunRightJump}
    ELSE IF ~g.player.facing_right THEN {Idle}
    ELSE IF g.player.x \in ShotsFrom THEN {RunRight, {"K_LEFT", "K_x"}}
    ELSE {RunRight}

FlightTicks == 520
FlightLastShot == 130
FlightEvery == 30
FlightFrom == {630, 1090}
FlightPit == 14..45

FlightDraw(world_num) ==
    [ShotsDraw(world_num) EXCEPT
        !.columns = [j \in 1..NumColumns(world_num) |->
                        [solid |-> j \notin FlightPit, height |-> 200,
                         float |-> None]]]

FlightDraws == {[world_num \in 1..NumWorlds |-> FlightDraw(world_num)]}

\* Run and jump until the flower is taken, then run; at one of the places
\* FlightFrom turn left and shoot, or stop and shoot to the right, or (but
\* for the last place) run on; after a shot to the left, stand; after a
\* shot to the right, stand and shoot again at any tick up to
\* FlightLastShot that is a multiple of FlightEvery.
FlightPlan(g) ==
    IF g.player.power_up # "FIRE_FLOWER" THEN {RunRightJump}
    ELSE IF ~g.player.facing_right THEN {Idle}
    ELSE IF g.player.vx = 0
    THEN IF /\ g.player.animation_time <= FlightLastShot
            /\ g.player.animation_time % FlightEvery = 0
         THEN {Idle, {"K_x"}}
         ELSE {Idle}
    ELSE IF g.player.x \notin FlightFrom THEN {RunRight}
    ELSE IF \A x \in FlightFrom : x <= g.player.x
    THEN {{"K_LEFT", "K_x"}, {"K_x"}}
    ELSE {RunRight, {"K_LEFT", "K_x"}, {"K_x"}}

FinishTicks == 480
FinishAfter == 3
FinishPit == 5..7
FinishPitJump == 340..350
FinishLastJump == 4100..4110
FinishShot == 4200..4210

FinishDraw(world_num, power_type) ==
    [columns |->
        [j \in 1..NumColumns(world_num) |->
            [solid |-> j \notin FinishPit, height |-> 200, float |-> None]],
     enemies |-> FarEnemies(world_num),
     power_ups |->
        [j \in 1..power_count(world_num) |->
            IF j = 1 THEN PowerUpAt(530, 400, power_type)
            ELSE PowerUpAt(level_width(world_num) - 400, 200, "MUSHROOM")],
     coins |->
        [j \in 1..coin_count(world_num) |->
            IF j <= 40
            THEN CoinAt(620 + 20 * ((j - 1) \div 8), 380 + 10 * ((j - 1) % 8))
            ELSE CoinAt(level_width(world_num) - 100, 150)]]

FinishDraws ==
    {[world_num \in 1..NumWorlds |-> FinishDraw(world_num, power_type)] :
        power_type \in {"STAR", "FIRE_FLOWER"}}

\* In world 1 run; on the ground before the pit jump, or with all lives
\* left run on into it; on the ground before the flag jump; a little
\* further press the fire key as well.  In world 2 stand.
FinishPlan(g) ==
    IF g.world.world_num # 1 THEN {Idle}
    ELSE IF g.player.on_ground /\ g.player.x \in FinishPitJump
    THEN IF g.player.lives = 3 THEN {RunRight, RunRightJump}
         ELSE {RunRightJump}
    ELSE IF g.player.on_ground /\ g.player.x \in FinishLastJump
    THEN {RunRightJump}
    ELSE IF g.player.x \in FinishShot THEN {RunRight \cup {"K_x"}}
    ELSE {RunRight}

TrialDraws ==
    CASE scenario = "levels" -> LevelsDraws
      [] scenario = "finish" -> FinishDraws
      [] scenario = "flight" -> FlightDraws
      [] scenario = "shots" -> ShotsDraws
      [] scenario = "platforms" -> PlatformsDraws
      [] scenario = "piranhas" -> PiranhasDraws
      [] scenario = "fire" -> FireDraws
      [] scenario = "star" -> StarDraws
      [] scenario = "coins" -> CoinsDraws

\* The worlds a trial is played in.
TrialWorlds ==
    CASE scenario = "levels" -> 1..NumWorlds
      [] scenario = "coins" -> {1}
      [] scenario = "star" -> {1}
      [] scenario = "fire" -> {1}
      [] scenario = "piranhas" -> {1}
      [] scenario = "platforms" -> {1}
      [] scenario = "shots" -> {1}
      [] scenario = "flight" -> {1}
      [] scenario = "finish" -> {1}

\* The keys handle_input may read in the PLAYING state of a trial.
TrialKeys(g) ==
    CASE scenario = "levels" -> {Idle}
      [] scenario = "coins" -> {RunRightJump}
      [] scenario = "star" -> StarPlan(g)
      [] scenario = "fire" -> FirePlan(g)
      [] scenario = "piranhas" -> PiranhasPlan(g)
      [] scenario = "platforms" -> PlatformsPlan(g)
      [] scenario = "shots" -> ShotsPlan(g)
      [] scenario = "flight" -> FlightPlan(g)
      [] scenario = "finish" -> FinishPlan(g)

TrialTicks ==
    CASE scenario = "levels" -> LevelsTicks
      [] scenario = "coins" -> CoinsTicks
      [] scenario = "star" -> StarTicks
      [] scenario = "fire" -> FireTicks
      [] scenario = "piranhas" -> PiranhasTicks
      [] scenario = "platforms" -> PlatformsTicks
      [] scenario = "shots" -> ShotsTicks
      [] scenario = "flight" -> FlightTicks
      [] scenario = "finish" -> IF game.world.world_num = 1 THEN FinishTicks
                                ELSE FinishAfter

DrawsOf(g) ==
    IF scenario # "tour" THEN TrialDraws
    ELSE IF g.game_state = "MENU" THEN Draws ELSE NextLevelDraws

\* How many ticks a level of each world is followed for in a first session
\* begun at once, how many in a session begun after a tick in the menu or
\* after another session, and up to which tick of a level the player may
\* cancel or close the window.
TicksWorld1 == 275
TicksWorld2 == 100
TicksWorld3 == 100
TicksWorld4 == 600
TicksWorld5 == 650
LaterTicks == 10
CancelTicks == 2

\* World 1.  With lives to spare: run to the pit and stop over it.  With the
\* last life: while invincible, run on past the piranhas and wait; after
\* that, start running back at any time and keep running.
Plan1(p) ==
    IF p.lives >= 2
    THEN IF p.x < 300 THEN {RunRight} ELSE {Idle}
    ELSE IF p.invincible_timer > 0
    THEN IF p.x < 460 THEN {RunRight} ELSE {Idle}
    ELSE IF p.vx < 0 THEN {RunLeft} ELSE {Idle, RunLeft}

\* Worlds 2 and 3.  Before anything has happened: run, and jump at any time
\* between x = 300 and x = 400.  With the power-up: stop running for good,
\* either at any time before x = 540 or over the pit.  After a loss: stand
\* still.
Plan2(p) ==
    IF p.lives < 3 THEN {Idle}
    ELSE IF p.power_up = "NONE"
    THEN IF p.x >= 300 /\ p.x <= 400 THEN {RunRight, RunRightJump}
         ELSE {RunRight}
    ELSE IF p.vx = 0 THEN {Idle}
    ELSE IF p.x <= 540 THEN {Idle, RunRight}
    ELSE IF p.x < 700 THEN {RunRight}
    ELSE {Idle}

\* Worlds 4 and 5.  Run, and jump at any time within 300 pixels of the flag.
Plan4(g) ==
    IF g.player.x >= g.world.flag.x - 300 THEN {RunRight, RunRightJump}
    ELSE {RunRight}

\* The keys handle_input may read in the PLAYING state.
PlayingKeys(g) ==
    CASE g.world.world_num = 1 -> Plan1(g.player)
      [] g.world.world_num \in {2, 3} -> Plan2(g.player)
      [] OTHER -> Plan4(g)

\* The keys and pointer positions handle_input may read in the MENU state:
\* each world key, two keys at once, keys and positions that select
\* nothing, and a click on an entry (alone and with a key held).
NoClick == [pressed |-> FALSE, pos |-> <<0, 0>>]
Click(x, y) == [pressed |-> TRUE, pos |-> <<x, y>>]

MenuInputs ==
    {<<{WorldKey(i)}, NoClick>> : i \in 1..NumWorlds}
      \cup {<<{"K_2", "K_4"}, NoClick>>, <<{}, NoClick>>, <<{"K_6"}, NoClick>>,
            <<{"K_0", "K_SPACE"}, NoClick>>, <<{}, Click(10, 10)>>,
            <<{}, Click(SCREEN_WIDTH \div 2, 300 + 3 * 80)>>,
            <<{"K_1"}, Click(SCREEN_WIDTH \div 2, 300)>>,
            <<{"K_5"}, Click(SCREEN_WIDTH \div 2, 300 + 80 + 45)>>}

Inputs(g) ==
    CASE scenario # "tour" /\ g.game_state = "MENU" ->
           {<<{WorldKey(w)}, NoClick>> : w \in TrialWorlds}
      [] scenario # "tour" /\ g.game_state = "PLAYING" ->
           {<<keys, NoClick>> : keys \in TrialKeys(g)}
      [] g.game_state = "MENU" -> MenuInputs
      [] g.game_state = "PLAYING" ->
           {<<keys, NoClick>> : keys \in PlayingKeys(g)}
      [] OTHER -> {<<{}, NoClick>>, <<{"K_SPACE"}, NoClick>>,
                   <<{"K_1", "K_x"}, Click(SCREEN_WIDTH \div 2, 300)>>}

\* The events of a frame: none, or up to two of Escape pressed, the window
\* closed and another key pressed.
EventsOf(g) ==
    IF scenario # "tour" THEN {<<>>}
    ELSE IF g.game_state = "PLAYING" /\ g.player.animation_time > CancelTicks
    THEN {<<>>}
    ELSE {<<>>, <<"K_ESCAPE">>, <<"QUIT">>, <<"K_a">>,
          <<"K_ESCAPE", "K_ESCAPE">>, <<"K_ESCAPE", "QUIT">>}

TicksOf(g) ==
    IF scenario # "tour" THEN TrialTicks
    ELSE IF started > 1 \/ g.menu_animation > 0 THEN LaterTicks
    ELSE CASE g.world.world_num = 1 -> TicksWorld1
           [] g.world.world_num = 2 -> TicksWorld2
           [] g.world.world_num = 3 -> TicksWorld3
           [] g.world.world_num = 4 -> TicksWorld4
           [] OTHER -> TicksWorld5

\* The three steps of an iteration of the loop.
Events ==
    /\ pc = "events"
    /\ \E evs \in EventsOf(game) :
          LET r == RunEvents(game, running, evs, 1)
          IN /\ game' = r[1]
             /\ running' = r[2]
    /\ pc' = "input"
    /\ UNCHANGED <<started, scenario>>

HandleInput ==
    /\ pc = "input"
    /\ \E in \in Inputs(game), rnd \in DrawsOf(game) :
          /\ game' = handle_input(game, in[1], in[2], rnd)
          /\ started' = IF game.game_state = "MENU"
                           /\ game'.game_state = "PLAYING"
                        THEN started + 1 ELSE started
          /\ started' <= MaxSessions
    /\ pc' = "update"
    /\ UNCHANGED <<running, scenario>>

Update ==
    /\ pc = "update"
    /\ IF game.game_state = "PLAYING"
       THEN game.player.animation_time < TicksOf(game)
       ELSE game.menu_animation < MaxMenuTicks
    /\ \E rnd \in DrawsOf(game) : game' = update(game, rnd)
    /\ pc' = IF running THEN "events" ELSE "done"
    /\ UNCHANGED <<running, started, scenario>>

Next ==
    \/ Events
    \/ HandleInput
    \/ Update

Spec == Init /\ [][Next]_vars

\* The loop in the environment of a trial.
TrialInit ==
    /\ game = Game
    /\ running = TRUE
    /\ pc = "events"
    /\ started = 0
    /\ scenario \in Trials

TrialSpec == TrialInit /\ [][Next]_vars

\* The loop in the environment "flight".  The loop of Game.run goes on from
\* frame to frame as long as running holds: no step of it waits.  Every
\* step of Next moves pc, and in this environment a step is possible at
\* pc = "events" and pc = "input" in any state, and at pc = "update" until
\* the last tick followed; so the fairness of the loop is the fairness of
\* the move of pc.
FlightInit ==
    /\ game = Game
    /\ running = TRUE
    /\ pc = "events"
    /\ started = 0
    /\ scenario = "flight"

LoopMovesOn ==
    /\ \/ pc \in {"events", "input"}
       \/ /\ pc = "update"
          /\ IF game.game_state = "PLAYING"
             THEN game.player.animation_time < TicksOf(game)
             ELSE game.menu_animation < MaxMenuTicks
    /\ pc' \in {"events", "input", "update", "done"}
    /\ pc' # pc

FlightSpec == FlightInit /\ [][Next]_vars /\ WF_pc(LoopMovesOn)

\* The loop in the environment "finish".
FinishInit ==
    /\ game = Game
    /\ running = TRUE
    /\ pc = "events"
    /\ started = 0
    /\ scenario = "finish"

FinishSpec == FinishInit /\ [][Next]_vars

\* The draws are draws the generator can make.
DrawsValid ==
    \A rnd \in Draws : \A w \in 1..NumWorlds : ValidDraw(w, rnd[w])

TrialDrawsValid ==
    scenario # "tour" =>
        \A rnd \in TrialDraws : \A w \in TrialWorlds : FullDraw(w, rnd[w])

(***************************************************************************)
(* The properties.  The entries of game.log are the contacts and damage    *)
(* events of the latest PLAYING tick.                                      *)
(***************************************************************************)
Contacts == {k \in 1..Len(game.log) : game.log[k].ev = "enemy_contact"}
Damages == {k \in 1..Len(game.log) : game.log[k].ev = "take_damage"}

\* A contact resolved while the player falls with the bottom above the
\* enemy's centre.
FallingFromAbove(c) == c.before.falling /\ c.above

\* C1: every contact with a live enemy resolved while the player is falling
\* with the bottom above the enemy's vertical centre is a stomp, with the
\* invincibility timer positive or not: one enemy fewer, score + 100 (never
\* + 200), vy = JUMP_STRENGTH / 2, and no damage (lives, power-up, position,
\* invincibility timer and mode as before).
StompPriority ==
    \A k \in Contacts :
        LET c == game.log[k]
        IN FallingFromAbove(c) =>
              /\ c.after.enemies = c.before.enemies - 1
              /\ c.after.score = c.before.score + 100
              /\ c.after.vy = (JUMP_STRENGTH * 10) \div 2
              /\ c.after.lives = c.before.lives
              /\ c.after.power_up = c.before.power_up
              /\ c.after.invincible_timer = c.before.invincible_timer
              /\ c.after.x = c.before.x /\ c.after.y = c.before.y
              /\ c.after.game_state = c.before.game_state

\* A stomp made while invincible.
StompWhileInvincible ==
    \E k \in Contacts :
        /\ FallingFromAbove(game.log[k])
        /\ game.log[k].before.invincible_timer > 0

\* C2: the player's lives count is never negative, whatever happens in a
\* tick (several damage events in one tick included).
LivesNeverNegative ==
    game.player # None => game.player.lives >= 0

BaseDamageRespawns ==
    \A k \in Damages :
        LET d == game.log[k]
        IN (d.before.power_up = "NONE" /\ d.before.lives >= 1) =>
              /\ d.after.lives = d.before.lives - 1
              /\ <<d.after.x, d.after.y>> = d.before.spawn_point
              /\ d.after.vx = 0 /\ d.after.vy = 0
              /\ d.after.power_up = "NONE"
              /\ d.after.invincible_timer = 180
              /\ d.after.invincible_timer > 120

\* C4, for a player with a life to spare: a damage event applied to a
\* player at base form with at least two lives takes exactly one life and
\* puts the player back at the level's spawn point, at rest, at base form,
\* with the invincibility timer at 180 (more than the 120 of a power-down),
\* the mode as it was.
BaseDamageWithLivesLeftRespawns ==
    \A k \in Damages :
        LET d == game.log[k]
        IN (d.before.power_up = "NONE" /\ d.before.lives >= 2) =>
              /\ d.after.lives = d.before.lives - 1
              /\ <<d.after.x, d.after.y>> = d.before.spawn_point
              /\ d.after.vx = 0 /\ d.after.vy = 0
              /\ d.after.power_up = "NONE"
              /\ d.after.invincible_timer = 180
              /\ d.after.invincible_timer > 120
              /\ d.after.game_state = d.before.game_state

\* A damage event at base form, away from the spawn point, with lives to
\* spare.
BaseDamageWithLivesLeft ==
    \E k \in Damages :
        LET d == game.log[k]
        IN /\ d.before.power_up = "NONE" /\ d.before.lives >= 2
           /\ <<d.before.x, d.before.y>> # d.before.spawn_point

\* The tick that ends in game' took the last life.
LastLifeLost ==
    \E k \in 1..Len(game'.log) :
        /\ game'.log[k].ev = "take_damage"
        /\ game'.log[k].before.lives >= 1
        /\ game'.log[k].after.lives <= 0

\* The step is a handle_input that reads the Space key held.
ConfirmGiven ==
    /\ pc = "input"
    /\ \E in \in Inputs(game), rnd \in Draws :
          /\ "K_SPACE" \in in[1]
          /\ game' = handle_input(game, in[1], in[2], rnd)

\* C5: a tick in which the lives reach zero ends in GAME_OVER, and from
\* GAME_OVER the mode changes only to MENU and only when handle_input reads
\* the key that returns to the menu: no other input, event or tick leaves it.
GameOverIsTerminal ==
    [][/\ (pc = "update" /\ game.game_state = "PLAYING" /\ LastLifeLost)
            => game'.game_state = "GAME_OVER"
       /\ game.game_state = "GAME_OVER"
            => /\ \/ game'.game_state = "GAME_OVER"
                  \/ game'.game_state = "MENU" /\ ConfirmGiven
               /\ \A in \in Inputs(game), rnd \in Draws :
                      "K_SPACE" \notin in[1] =>
                          handle_input(game, in[1], in[2], rnd).game_state
                              = "GAME_OVER"]_vars

\* The game is over after a tick that took the last life.
GameOverByLastLife ==
    /\ game.game_state = "GAME_OVER"
    /\ \E k \in Damages :
          game.log[k].before.lives = 1 /\ game.log[k].after.lives = 0

\* C6: in GAME_OVER and in VICTORY the high score is at least the score,
\* points gained after the transition in the same tick included.
HighScoreRecordsFinalScore ==
    game.game_state \in {"GAME_OVER", "VICTORY"} =>
        game.high_score >= game.score

\* The edges of the mode, each with the step of the loop that takes it.
ModeEdges ==
    {<<"MENU", "PLAYING", "input">>, <<"PLAYING", "MENU", "events">>,
     <<"PLAYING", "GAME_OVER", "update">>, <<"PLAYING", "VICTORY", "update">>,
     <<"GAME_OVER", "MENU", "input">>, <<"VICTORY", "MENU", "input">>}

\* C7: the mode changes only from MENU to PLAYING (handle_input's world
\* selection), from PLAYING to GAME_OVER or VICTORY (update), from PLAYING to
\* MENU (the Escape event) and from GAME_OVER or VICTORY to MENU
\* (handle_input's confirmation).
ModeChangesAlongEdges ==
    [][game'.game_state # game.game_state =>
          <<game.game_state, game'.game_state, pc>> \in ModeEdges]_vars

\* Back in the menu after a game that was lost.
BackInMenuAfterGameOver ==
    /\ game.game_state = "MENU"
    /\ game.player # None
    /\ game.player.lives <= 0

\* The world index an input of the menu selects: the entry clicked on if
\* there is one, else the lowest world key held, else -1.
SelectedIndex(in) ==
    LET clicked == {i \in 0..(NumWorlds - 1) :
                       in[2].pressed /\ collidepoint(MenuRect(i), in[2].pos)}
        keyed == {i \in 0..(NumWorlds - 1) : WorldKey(i + 1) \in in[1]}
    IN IF clicked # {} THEN CHOOSE i \in clicked : \A j \in clicked : i <= j
       ELSE IF keyed # {} THEN CHOOSE i \in keyed : \A j \in keyed : i <= j
       ELSE -1

\* g is the start of a session in world i, generated from the draws rnd.
FreshSession(g, i, rnd) ==
    /\ g.score = 0
    /\ g.current_world_index = i
    /\ g.world.world_num = i + 1
    /\ g.world = World(i + 1, rnd[i + 1])
    /\ g.world.camera_x = 0 /\ g.world.fireballs = <<>>
    /\ <<g.player.x, g.player.y>> = g.world.spawn_point
    /\ g.player = Player(g.world.spawn_point[1], g.world.spawn_point[2])
    /\ g.player.lives = 3 /\ g.player.coins = 0
    /\ g.player.power_up = "NONE"
    /\ g.player.invincible_timer = 0 /\ g.player.fire_cooldown = 0

\* C8: right after every change from MENU to PLAYING, whatever the session
\* before left, the score is 0, the world index is the one the input
\* selected, the world is newly generated for it and the player is new: at
\* the spawn point with 3 lives, no coins, no power-up and both timers 0.
\* (Whatever input handle_input reads in a menu state, if it leads to
\* PLAYING it leads to the fresh session of the world it selects; and every
\* step that does change MENU to PLAYING ends in a fresh session.)
PlayingStartsFresh ==
    /\ [](game.game_state = "MENU" =>
            \A in \in Inputs(game), rnd \in Draws :
                \A after \in {handle_input(game, in[1], in[2], rnd)} :
                    after.game_state = "PLAYING" =>
                        FreshSession(after, SelectedIndex(in), rnd))
    /\ [][(game.game_state = "MENU" /\ game'.game_state = "PLAYING") =>
             \E rnd \in Draws :
                 FreshSession(game', game'.current_world_index, rnd)]_vars

\* The first state of a second session, after a first one that scored.
SecondSessionStarted ==
    /\ game.game_state = "PLAYING"
    /\ started = 2
    /\ game.player.animation_time = 0
    /\ game.high_score > 0
    /\ pc = "update"

\* C9: the world index is in 0 .. 4 in every state, and in the menu an input
\* that selects one of the five worlds enters PLAYING in that world while
\* any other input (a key or a click outside the range) changes nothing.
WorldIndexInRange ==
    /\ game.current_world_index \in 0..(NumWorlds - 1)
    /\ game.game_state = "MENU" =>
          \A in \in Inputs(game), rnd \in Draws :
              \A after \in {handle_input(game, in[1], in[2], rnd)} :
                  IF SelectedIndex(in) \in 0..(NumWorlds - 1)
                  THEN /\ after.game_state = "PLAYING"
                       /\ after.current_world_index = SelectedIndex(in)
                  ELSE after = game

\* In the menu after the last world was completed, where an input that
\* selects nothing may be read.
MenuAfterLastWorld ==
    /\ game.game_state = "MENU"
    /\ game.current_world_index = NumWorlds - 1
    /\ game.score >= 1000 * NumWorlds
    /\ \E in \in Inputs(game) : SelectedIndex(in) = -1

\* C10: an update in MENU, GAME_OVER or VICTORY changes nothing of the
\* simulation (score, high score, the player, the world with its entities
\* and camera, the world index, the mode); only menu_animation advances.
UpdateInertOutsidePlaying ==
    [][(pc = "update" /\ game.game_state # "PLAYING") =>
          /\ game'.score = game.score
          /\ game'.high_score = game.high_score
          /\ game'.player = game.player
          /\ game'.world = game.world
          /\ game'.current_world_index = game.current_world_index
          /\ game'.game_state = game.game_state
          /\ game'.menu_animation = game.menu_animation + 1]_vars

\* An update has run since the game was lost or won.
UpdatedAfterTheEnd ==
    /\ game.game_state \in {"GAME_OVER", "VICTORY"}
    /\ game.menu_animation > 0
    /\ pc = "events"

\* The damage events of the tick that ends in game' that ended the game.
EndingDamages ==
    {k \in 1..Len(game'.log) :
        /\ game'.log[k].ev = "take_damage"
        /\ game'.log[k].after.game_state = "GAME_OVER"}

\* C11: the high score never decreases; it changes only in an update that
\* takes the mode from PLAYING to GAME_OVER or VICTORY, and there it becomes
\* the larger of the high score before and the score at the transition (for
\* GAME_OVER the score when the damage event ended the game, for VICTORY the
\* score with the completion bonus).  No step of the event loop, the Escape
\* that abandons a session included, and no handle_input changes it.
HighScoreOnlyAtTheEnd ==
    [][/\ game'.high_score >= game.high_score
       /\ game'.high_score # game.high_score =>
             /\ pc = "update"
             /\ game.game_state = "PLAYING"
             /\ game'.game_state \in {"GAME_OVER", "VICTORY"}
       /\ (pc = "update" /\ game.game_state = "PLAYING"
             /\ game'.game_state = "VICTORY") =>
             game'.high_score = Max(game.high_score, game'.score)
       /\ (pc = "update" /\ game.game_state = "PLAYING"
             /\ game'.game_state = "GAME_OVER") =>
             \E k \in EndingDamages :
                 game'.high_score
                     = Max(game.high_score, game'.log[k].before.score)
       /\ pc \in {"events", "input"} =>
             game'.high_score = game.high_score]_vars

\* In the menu after a session was abandoned with a score above the high
\* score.
AbandonedWithScore ==
    /\ game.game_state = "MENU"
    /\ game.player # None
    /\ game.player.lives > 0
    /\ game.score > game.high_score

\* The level completions of the latest PLAYING tick, and of the tick that
\* ends in game'.
Completions == {k \in 1..Len(game.log) : game.log[k].ev = "complete_level"}
CompletionsNext ==
    {k \in 1..Len(game'.log) : game'.log[k].ev = "complete_level"}

\* C12: a completion made with the world index at i adds exactly
\* 1000 * (i + 1) to the score (i the index of the world whose flag was
\* touched, not of the world that follows), and a tick completes at most one
\* level; an update changes the world index or enters VICTORY only with a
\* completion, and then the score of the tick grows by at least the bonus.
CompletionBonus ==
    /\ [](/\ Cardinality(Completions) <= 1
          /\ \A k \in Completions :
                LET c == game.log[k]
                IN /\ c.before.world_index \in 0..(NumWorlds - 1)
                   /\ c.before.world_num = c.before.world_index + 1
                   /\ c.after.score
                        = c.before.score + 1000 * (c.before.world_index + 1))
    /\ [][(/\ pc = "update"
            /\ game.game_state = "PLAYING"
            /\ \/ game'.current_world_index # game.current_world_index
               \/ game'.game_state = "VICTORY") =>
              /\ Cardinality(CompletionsNext) = 1
              /\ game'.score
                   >= game.score + 1000 * (game.current_world_index + 1)]_vars

\* World 4 (index 3) has just been completed.
FourthWorldCompleted ==
    \E k \in Completions :
        /\ game.log[k].before.world_index = 3
        /\ game.log[k].after.world_index = 4
        /\ game.log[k].after.score = 4000

\* C13: a completion of world index i < 4 leaves the mode PLAYING with the
\* world index at i + 1, a newly generated world of number i + 2 and a new
\* player at its spawn point; a completion of world index 4 leaves the mode
\* VICTORY with the index unchanged.  The mode becomes VICTORY only in an
\* update that completed world index 4 with the player on its flag, and an
\* update changes the world index only by one.
CompletionAdvancesOneWorld ==
    [][/\ (pc = "update" /\ game.game_state = "PLAYING"
            /\ CompletionsNext # {}) =>
              IF game.current_world_index < NumWorlds - 1
              THEN /\ game'.game_state = "PLAYING"
                   /\ game'.current_world_index = game.current_world_index + 1
                   /\ \E rnd \in DrawsOf(game) :
                         game'.world
                            = World(game.current_world_index + 2,
                                    rnd[game.current_world_index + 2])
                   /\ game'.player
                        = Player(game'.world.spawn_point[1],
                                 game'.world.spawn_point[2])
              ELSE /\ game'.game_state = "VICTORY"
                   /\ game'.current_world_index = game.current_world_index
       /\ (game'.game_state = "VICTORY" /\ game.game_state # "VICTORY") =>
              /\ pc = "update"
              /\ game.game_state = "PLAYING"
              /\ game.current_world_index = NumWorlds - 1
              /\ \E k \in CompletionsNext :
                    /\ game'.log[k].before.at_flag
                    /\ game'.log[k].before.world_index = NumWorlds - 1
       /\ (pc = "update"
            /\ game'.current_world_index # game.current_world_index) =>
              /\ game'.current_world_index = game.current_world_index + 1
              /\ \E k \in CompletionsNext : game'.log[k].before.at_flag]_vars

\* The last world has been completed after the one before it.
VictoryAfterTwoWorlds ==
    /\ game.game_state = "VICTORY"
    /\ game.current_world_index = NumWorlds - 1
    /\ game.score >= 1000 * NumWorlds + 1000 * (NumWorlds - 1)
    /\ Completions # {}

\* The keys that carry a jump intent.
JumpKeys == {"K_SPACE", "K_UP"}

\* The player, moved by Player.update, meets a platform of the world while
\* falling: what the platform loop of the tick takes for a landing.
LandsThisTick ==
    \E k \in 1..Len(game.world.platforms) :
        /\ colliderect(Player_update(game.player), game.world.platforms[k])
        /\ Falling(Player_update(game.player))

\* C17: a jump intent sets vy to the jump impulse if on_ground is true and
\* leaves vy as it is otherwise (as does an input without the intent);
\* on_ground is true after a tick exactly if the platform loop of that tick
\* put the player on a platform (a level begun in the tick starts with it
\* false), and the tick that follows a jump leaves it false: between two
\* jumps there is a tick in which the player landed.
JumpOnlyFromGround ==
    /\ []((game.game_state = "PLAYING" /\ pc = "input") =>
            \A in \in Inputs(game), rnd \in DrawsOf(game) :
                \A after \in {handle_input(game, in[1], in[2], rnd)} :
                    after.player.vy =
                        IF in[1] \cap JumpKeys # {} /\ game.player.on_ground
                        THEN JUMP_STRENGTH * 10
                        ELSE game.player.vy)
    /\ [][/\ (pc = "input" /\ game.game_state = "PLAYING"
                /\ game'.player.vy # game.player.vy) =>
                  /\ game.player.on_ground
                  /\ game'.player.vy = JUMP_STRENGTH * 10
          /\ (pc = "update" /\ game.game_state = "PLAYING") =>
                  /\ game'.player.on_ground
                        = (LandsThisTick /\ CompletionsNext = {})
                  /\ (game.player.vy = JUMP_STRENGTH * 10) =>
                        ~game'.player.on_ground]_vars

\* The jump intent may be read while the player rises from a jump.
JumpHeldInMidAir ==
    /\ game.game_state = "PLAYING"
    /\ pc = "input"
    /\ ~game.player.on_ground
    /\ game.player.vy < 0
    /\ \E in \in Inputs(game) : in[1] \cap JumpKeys # {}

\* Player positions and camera offsets (in thousandths) to try the camera
\* update on, besides the ones the game is in.
CameraProbeX == {-100000, -1, 0, 511, 512, 513, 2000, 4500, 6500, 1000000}
CameraProbeOffset == {-5000000, 0, 1, 999999, 3476000, 5476000, 90000000}

CameraInRange(world) ==
    /\ world.camera_x >= 0
    /\ world.camera_x <= (world.level_width - SCREEN_WIDTH) * 1000

\* C18: the camera offset is within [0, level_width - SCREEN_WIDTH] in every
\* state of a game with a world, and a camera update of that world leaves
\* it there for every player x and every prior offset tried.
CameraWithinLevel ==
    game.world # None =>
        /\ CameraInRange(game.world)
        /\ \A x \in CameraProbeX \cup {centerx(game.player)},
              c \in CameraProbeOffset \cup {game.world.camera_x} :
                CameraInRange(
                    update_camera([game.world EXCEPT !.camera_x = c], x))

\* The camera has reached the right end of a level.
CameraAtRightEnd ==
    /\ game.game_state = "PLAYING"
    /\ game.world.camera_x = (game.world.level_width - SCREEN_WIDTH) * 1000
    /\ game.player.x > game.world.level_width - SCREEN_WIDTH

\* The game is at the start of a level just generated.
LevelJustGenerated ==
    /\ game.game_state = "PLAYING"
    /\ game.player.animation_time = 0

\* C19: a level just generated for world number w holds exactly 30 + 10 w
\* coins, whatever the draws (arcs of five or single coins).
GeneratedCoinCount ==
    LevelJustGenerated =>
        Len(game.world.coins) = 30 + 10 * game.world.world_num

\* The members of a group, as a set.
Members(group) == {group[k] : k \in 1..Len(group)}

\* Every entity of the world lies, from its left to its right edge, inside
\* [0, level_width).
PlacedInside(world) ==
    \A m \in Members(world.platforms) \cup Members(world.enemies)
              \cup Members(world.power_ups) \cup Members(world.coins)
              \cup {world.flag} :
        m.x >= 0 /\ m.x + m.w <= world.level_width

\* The ground columns over the first 300 px are there.
StartIsSolid(world) ==
    \A i \in {0, 100, 200} :
        \E m \in Members(world.platforms) :
            m.x = i /\ m.w = 100 /\ m.y + m.h = SCREEN_HEIGHT

\* C20: in a level just generated, whatever the world number and the draws,
\* every platform, enemy, power-up and coin and the flag lies inside
\* [0, level_width) from edge to edge, and the three ground columns of the
\* first 300 px are present.
GeneratedInsideLevel ==
    LevelJustGenerated =>
        PlacedInside(game.world) /\ StartIsSolid(game.world)

\* The coins collected in the latest PLAYING tick.
CoinPickups == {k \in 1..Len(game.log) : game.log[k].ev = "collect_coin"}

\* C14: the coin count is within 0..99 in every state, also between two
\* coins of one tick; a coin collected at 99 sets the count to 0 and adds
\* one life, a coin collected at a lower count adds one to the count and
\* leaves the lives alone; every coin collected adds 50 to the score.
CoinCountWraps ==
    /\ game.player # None => game.player.coins \in 0..99
    /\ \A k \in CoinPickups :
          /\ game.log[k].after.coins \in 0..99
          /\ game.log[k].after.score = game.log[k].before.score + 50
          /\ IF game.log[k].before.coins = 99
             THEN /\ game.log[k].after.coins = 0
                  /\ game.log[k].after.lives = game.log[k].before.lives + 1
             ELSE /\ game.log[k].after.coins = game.log[k].before.coins + 1
                  /\ game.log[k].after.lives = game.log[k].before.lives

\* The hundredth coin has been collected, and another coin after it in the
\* same tick.
HundredthCoinCollected ==
    \E k \in CoinPickups, m \in CoinPickups :
        /\ game.log[k].before.coins = 99
        /\ game.log[k].after.coins = 0
        /\ m > k
        /\ game.log[m].after.coins = 1

\* The Stars collected and the Stars run out in the latest PLAYING tick, and
\* the events of the tick that ends in game' that set the power-up or the
\* invincibility timer by another way than the countdown.
StarPickups ==
    {k \in 1..Len(game.log) :
        /\ game.log[k].ev = "collect_power_up"
        /\ game.log[k].after.power_up = "STAR"}
StarExpiries == {k \in 1..Len(game.log) : game.log[k].ev = "star_expired"}
InterveningNext ==
    {k \in 1..Len(game'.log) :
        game'.log[k].ev \in {"collect_power_up", "take_damage",
                             "complete_level"}}

\* C15: a Star collected leaves the power-up Star, the invincibility timer
\* at 600 and the score 500 higher; with the power-up Star the timer is
\* within 1..600; a tick of a player with a Star in which no pickup, damage
\* or level change happens takes the timer down by exactly one, keeps the
\* Star while the timer is positive and, when the timer reaches 0 (the
\* 600th such tick), sets the power-up to None with the lives, the score
\* and the mode as they were and no damage taken.
StarLastsSixHundredTicks ==
    /\ [](/\ \A k \in StarPickups :
                /\ game.log[k].after.invincible_timer = 600
                /\ game.log[k].after.score = game.log[k].before.score + 500
           /\ (game.player # None /\ game.player.power_up = "STAR") =>
                game.player.invincible_timer \in 1..600)
    /\ [][(/\ pc = "update"
            /\ game.game_state = "PLAYING"
            /\ game.player.power_up = "STAR"
            /\ InterveningNext = {}) =>
              /\ game'.player.invincible_timer
                    = game.player.invincible_timer - 1
              /\ game'.player.power_up
                    = IF game.player.invincible_timer = 1 THEN "NONE"
                      ELSE "STAR"
              /\ game'.player.lives = game.player.lives
              /\ game'.game_state = "PLAYING"]_vars

\* A Star has run out in the latest tick, with no damage in that tick.
StarRanOut ==
    /\ game.game_state = "PLAYING"
    /\ game.player.power_up = "NONE"
    /\ game.player.invincible_timer = 0
    /\ Damages = {}
    /\ \E k \in StarExpiries :
          /\ game.log[k].before.invincible_timer = 1
          /\ game.log[k].after.lives = game.log[k].before.lives

\* The fireballs removed by the platform loop in the latest PLAYING tick.
BouncedOuts == {k \in 1..Len(game.log) : game.log[k].ev = "bounced_out"}

\* C16: every fireball in the world has a bounce counter below 3 (of 3
\* bounces allowed); a fireball the platform loop removes has its counter
\* at exactly 3 and had it below 3 when the tick began, whether it
\* overlaps one platform or several in that tick.
FireballBouncesThrice ==
    /\ game.world # None =>
          \A f \in Members(game.world.fireballs) :
              f.max_bounces = 3 /\ f.bounces \in 0..2
    /\ \A k \in BouncedOuts :
          /\ game.log[k].bounces = 3
          /\ game.log[k].before \in 0..2
          /\ game.log[k].overlapped >= 1

\* A fireball with two bounces behind it has been removed in a tick in
\* which it overlapped two platforms.
ThirdBounceOverTwoPlatforms ==
    \E k \in BouncedOuts :
        /\ game.log[k].before = 2
        /\ game.log[k].overlapped >= 2
        /\ game.log[k].bounces = 3

\* C21: a contact with a live enemy that is not a stomp takes the enemy
\* (one enemy fewer, score + 200) only if the player holds the Star with the
\* timer running; in every other case, the windows after a lost power-up
\* and after a respawn included, the enemy stays and the score is as it
\* was.
OnlyStarDefeatsOnContact ==
    \A k \in Contacts :
        ~FallingFromAbove(game.log[k]) =>
            IF /\ game.log[k].before.power_up = "STAR"
               /\ game.log[k].before.invincible_timer > 0
            THEN /\ game.log[k].after.enemies = game.log[k].before.enemies - 1
                 /\ game.log[k].after.score = game.log[k].before.score + 200
            ELSE /\ game.log[k].after.enemies = game.log[k].before.enemies
                 /\ game.log[k].after.score = game.log[k].before.score


FellOuts == {k \in 1..Len(game.log) : game.log[k].ev = "fell_out"}

\* The outcome Game.take_damage gives an enemy hit, read off the entry c.
DamagedAsByAHit(c) ==
    IF c.before.power_up \in BigPowerUps
    THEN /\ c.after.power_up = "NONE"
         /\ c.after.invincible_timer = 120
         /\ c.after.lives = c.before.lives
         /\ c.after.game_state = c.before.game_state
    ELSE /\ c.after.lives = c.before.lives - 1
         /\ IF c.after.lives <= 0
            THEN c.after.game_state = "GAME_OVER"
            ELSE /\ <<c.after.x, c.after.y>> = c.before.spawn_point
                 /\ c.after.power_up = "NONE"
                 /\ c.after.invincible_timer = 180
                 /\ c.after.game_state = c.before.game_state

\* C22: a PLAYING tick whose bounds check finds the player's top below the
\* screen (y > SCREEN_HEIGHT) applies a damage event in that tick with the
\* outcome of an enemy hit, whatever the invincibility timer; a player left
\* below the screen at the end of a PLAYING tick has been damaged in that
\* tick, and the next tick ends with the player at the spawn point or with
\* the mode GAME_OVER.
FallBelowScreenIsDamage ==
    /\ [](\A k \in FellOuts : DamagedAsByAHit(game.log[k]))
    /\ []((game.game_state = "PLAYING" /\ game.player.y > SCREEN_HEIGHT) =>
             FellOuts # {})
    /\ [][(/\ pc = "update"
           /\ game.game_state = "PLAYING"
           /\ game.player.y > SCREEN_HEIGHT) =>
             \/ game'.game_state = "GAME_OVER"
             \/ <<game'.player.x, game'.player.y>>
                   = game'.world.spawn_point]_vars

\* A fall below the screen that costs a life while the invincibility timer
\* runs: the player is back at the spawn point.
FellOutWhileInvincible ==
    \E k \in FellOuts :
        /\ game.log[k].before.invincible_timer > 0
        /\ game.log[k].before.power_up = "NONE"
        /\ game.log[k].after.lives = game.log[k].before.lives - 1
        /\ game.log[k].after.y = game.log[k].before.spawn_point[2]

\* The player as the platform loop of the coming update meets platform k.
LandingPlayer(k) ==
    PlatformLoop([Player_update(game.player) EXCEPT !.on_ground = FALSE],
                 game.world.platforms, 1, k - 1)

\* The platform loop of the coming update lands the player on platform k.
LandsOn(k) ==
    /\ colliderect(LandingPlayer(k), game.world.platforms[k])
    /\ Falling(LandingPlayer(k))

\* C23: a landing on a platform moves the player, from where the landing
\* puts them (the same x, the feet on the platform's top), by what the
\* platform moves in that tick: the same number of pixels along the same
\* axis, nothing along the other, and nothing at all for a platform that
\* does not move.
CarriedWithPlatform ==
    (pc = "update" /\ game.game_state = "PLAYING") =>
        \A k \in 1..Len(game.world.platforms) :
            LandsOn(k) =>
                LET pl == game.world.platforms[k]
                    p0 == LandingPlayer(k)
                    p1 == PlatformContact(p0, pl)
                IN /\ p1.x - p0.x = AnimatedPlatform_update(pl).x - pl.x
                   /\ p1.y - (pl.y - p0.h)
                         = AnimatedPlatform_update(pl).y - pl.y

\* Where a platform is, along its axis, from where it started.
Displacement(pl) ==
    IF pl.vertical_moving THEN pl.y - pl.start_y ELSE pl.x - pl.start_x

\* C24: in every PLAYING tick a platform that does not move stays as it is,
\* and a moving one moves along its axis only, ends the tick no further from
\* its start than move_range plus move_speed, turns round exactly when it
\* ends the tick beyond move_range, and ends the tick after that within
\* move_range again.
PlatformStaysInRange ==
    [][(/\ pc = "update"
        /\ game.game_state = "PLAYING"
        /\ game'.world.world_num = game.world.world_num) =>
          \A k \in 1..Len(game.world.platforms) :
              LET a == game.world.platforms[k]
                  b == game'.world.platforms[k]
              IN IF ~a.is_moving THEN b = a
                 ELSE /\ a.vertical_moving => b.x = a.x
                      /\ ~a.vertical_moving => b.y = a.y
                      /\ 10 * Abs(Displacement(b))
                            <= 10 * a.move_range + a.move_speed
                      /\ b.direction
                            = IF Abs(Displacement(b)) > a.move_range
                              THEN -a.direction ELSE a.direction
                      /\ Abs(Displacement(a)) > a.move_range =>
                            Abs(Displacement(b)) <= a.move_range]_vars

FireballHitEntries ==
    {k \in 1..Len(game.log) : game.log[k].ev = "fireball_hit"}

\* C25: every enemy a fireball defeats is defeated by a fireball that was in
\* the world until then (it had not reached its bounce limit in this tick and
\* had defeated no enemy); the defeat takes that one enemy, adds 150 to the
\* score, and the fireball is not in the world when the tick ends.
FireballDefeatsOneEnemy ==
    \A k \in FireballHitEntries :
        /\ ~game.log[k].gone
        /\ game.log[k].after.enemies = game.log[k].before.enemies - 1
        /\ game.log[k].after.score = game.log[k].before.score + 150
        /\ \A j \in 1..Len(game.world.fireballs) :
              game.world.fireballs[j] # game.log[k].fireball

\* The entries of the history that add to the score by taking an enemy or a
\* pickup.
Takings ==
    {k \in 1..Len(game.log) :
        /\ game.log[k].ev \in {"enemy_contact", "fireball_hit",
                               "collect_power_up", "collect_coin"}
        /\ game.log[k].after.score # game.log[k].before.score}

\* The entry c takes exactly one member out of the group it is about.
TakesOne(c) ==
    /\ c.after.enemies
          = c.before.enemies
              - (IF c.ev \in {"enemy_contact", "fireball_hit"} THEN 1 ELSE 0)
    /\ c.after.power_ups
          = c.before.power_ups - (IF c.ev = "collect_power_up" THEN 1 ELSE 0)
    /\ c.after.world_coins
          = c.before.world_coins - (IF c.ev = "collect_coin" THEN 1 ELSE 0)

\* The score the entries log[1 .. k] added by taking an enemy or a pickup
\* or by completing the level.
RECURSIVE Gained(_, _)
Gained(log, k) ==
    IF k = 0 THEN 0
    ELSE Gained(log, k - 1)
            + (IF log[k].ev \in {"enemy_contact", "fireball_hit",
                                 "collect_power_up", "collect_coin",
                                 "complete_level"}
               THEN log[k].after.score - log[k].before.score
               ELSE 0)

\* C26: no enemy in the world is marked dead and no coin or power-up in the
\* world is marked collected; whatever added to the score in a PLAYING tick
\* by defeating an enemy or collecting a pickup took exactly one member out
\* of its group in that tick, and the score of the tick grew by the sum of
\* these additions and of the completion bonus, so no enemy or pickup counts
\* twice.
DefeatedAndCollectedLeaveTheWorld ==
    /\ [](game.world # None =>
             /\ \A j \in 1..Len(game.world.enemies) :
                   game.world.enemies[j].alive
             /\ \A j \in 1..Len(game.world.power_ups) :
                   ~game.world.power_ups[j].collected
             /\ \A j \in 1..Len(game.world.coins) :
                   ~game.world.coins[j].collected)
    /\ [](\A k \in Takings : TakesOne(game.log[k]))
    /\ [][(pc = "update" /\ game.game_state = "PLAYING") =>
             game'.score = game.score + Gained(game'.log, Len(game'.log))]_vars

\* A tick in which the player stomped one enemy and defeated another.
TwoEnemiesTakenInOneTick ==
    Cardinality({k \in Takings : game.log[k].ev = "enemy_contact"}) = 2

\* The fireballs removed in the latest tick for having left the level.
LeftLevel == {k \in 1..Len(game.log) : game.log[k].ev = "left_level"}

\* C27: in a PLAYING tick that stays in its world no projectile appears, and
\* every projectile still in the world was there before, one step of its
\* constant speed of 10 further to the left or to the right, and is within
\* [0, level_width], so that none outlasts level_width / 10 + 1 ticks; and
\* with the loop going on, a time comes after which no projectile is left.
ProjectilesAreRemoved ==
    /\ [][(/\ pc = "update"
           /\ game.game_state = "PLAYING"
           /\ game'.game_state = "PLAYING"
           /\ game'.current_world_index = game.current_world_index
           /\ game'.player.animation_time = game.player.animation_time + 1) =>
             \A j \in 1..Len(game'.world.fireballs) :
                /\ game'.world.fireballs[j].vx \in {-10, 10}
                /\ game'.world.fireballs[j].x \in 0..game'.world.level_width
                /\ \E i \in 1..Len(game.world.fireballs) :
                      /\ game'.world.fireballs[j].vx
                            = game.world.fireballs[i].vx
                      /\ game'.world.fireballs[j].x
                            = game.world.fireballs[i].x
                                + game.world.fireballs[i].vx
                      /\ game'.world.fireballs[j].is_ice
                            = game.world.fireballs[i].is_ice]_vars
    /\ <>[](game.game_state = "PLAYING" /\ game.world.fireballs = <<>>)

\* A fireball that fell below the screen is removed beyond the right end of
\* the level.
FireballLeftBelowTheScreen ==
    \E k \in LeftLevel :
        /\ game.log[k].fireball.y > SCREEN_HEIGHT
        /\ game.log[k].fireball.bounces = 0
        /\ game.log[k].fireball.x > game.world.level_width

\* The entries of the history that tell the player's state after a pickup,
\* a damage or a timer expiry.
PlayerEvents ==
    {k \in 1..Len(game.log) :
        game.log[k].ev \in {"collect_power_up", "take_damage", "fell_out",
                            "star_expired", "enemy_contact", "collect_coin"}}

\* C28: while the game is PLAYING a player whose power-up is Star has a
\* positive invincibility timer, at the end of the tick and after every
\* pickup, damage, respawn and timer expiry within it.
StarImpliesInvincible ==
    /\ game.game_state = "PLAYING" /\ game.player.power_up = "STAR" =>
          game.player.invincible_timer > 0
    /\ \A k \in PlayerEvents :
          (/\ game.log[k].after.game_state = "PLAYING"
           /\ game.log[k].after.power_up = "STAR") =>
              game.log[k].after.invincible_timer > 0

\* A player with a Star fell below the screen and was respawned.
StarHolderRespawned ==
    \E k \in PlayerEvents :
        /\ game.log[k].ev = "fell_out"
        /\ game.log[k].before.power_up = "STAR"
        /\ game.log[k].after.game_state = "PLAYING"
        /\ game.log[k].after.invincible_timer = 180

\* A contact resolved as a stomp.
IsStomp(c) ==
    /\ c.after.enemies = c.before.enemies - 1
    /\ c.after.score = c.before.score + 100

\* C29: the contacts of a tick hold at most one stomp; after a stomp the
\* player rises (vy = JUMP_STRENGTH / 2 < 0), and every later contact of
\* the tick finds the player not falling and ends as an invincibility kill
\* (one enemy fewer, score + 200) or as damage (no enemy fewer, no score);
\* the stomps of a tick add at most 100 to the score.
AtMostOneStompPerTick ==
    /\ Cardinality({k \in Contacts : IsStomp(game.log[k])}) <= 1
    /\ \A k \in Contacts :
          IsStomp(game.log[k]) =>
              /\ game.log[k].after.vy = (JUMP_STRENGTH * 10) \div 2
              /\ game.log[k].after.vy < 0
              /\ \A j \in Contacts :
                    j > k =>
                       /\ ~game.log[j].before.falling
                       /\ \/ /\ game.log[j].before.invincible_timer > 0
                             /\ game.log[j].after.enemies
                                   = game.log[j].before.enemies - 1
                             /\ game.log[j].after.score
                                   = game.log[j].before.score + 200
                          \/ /\ game.log[j].before.invincible_timer = 0
                             /\ game.log[j].after.enemies
                                   = game.log[j].before.enemies
                             /\ game.log[j].after.score
                                   = game.log[j].before.score
                             /\ \E d \in Damages : k < d /\ d < j

\* A stomp on one enemy and, in the same tick, damage by another whose
\* centre was below the player's feet as well.
StompThenDamageInOneTick ==
    \E k \in Contacts :
        /\ IsStomp(game.log[k])
        /\ \E j \in Contacts :
              /\ j > k
              /\ game.log[j].above
              /\ game.log[j].before.invincible_timer = 0
              /\ game.log[j].after.lives = game.log[j].before.lives - 1

\* C30: a tick that completes a level and goes on to the next world ends
\* with the score the completion left (the score before it plus the bonus),
\* the high score as it was, a player with 3 lives, no coins, no power-up
\* and both timers at 0, the camera at 0 and no projectile in the world,
\* whatever these were when the flag was touched.
CompletionResetsThePlayer ==
    [][(/\ pc = "update"
        /\ game.game_state = "PLAYING"
        /\ game'.game_state = "PLAYING"
        /\ game'.current_world_index # game.current_world_index) =>
          /\ \E k \in 1..Len(game'.log) :
                /\ game'.log[k].ev = "complete_level"
                /\ game'.score
                      = game'.log[k].before.score
                          + 1000 * (game.current_world_index + 1)
                /\ game'.score >= game.score + 1000
          /\ game'.high_score = game.high_score
          /\ game'.player.lives = 3
          /\ game'.player.coins = 0
          /\ game'.player.power_up = "NONE"
          /\ game'.player.invincible_timer = 0
          /\ game'.player.fire_cooldown = 0
          /\ game'.world.camera_x = 0
          /\ game'.world.fireballs = <<>>]_vars

\* World 1 has just been completed by a player who had lost a life and had
\* coins, a Fire Flower, a fireball in flight and the cooldown of the shot
\* still running, with the camera far into the level.
CompletedWithAFireballInFlight ==
    \E k \in Completions :
        /\ game.log[k].after.world_index = 1
        /\ game.log[k].after.game_state = "PLAYING"
        /\ game.log[k].before.lives = 2
        /\ game.log[k].before.coins > 0
        /\ game.log[k].before.power_up = "FIRE_FLOWER"
        /\ game.log[k].before.fire_cooldown > 0
        /\ game.log[k].before.fireballs > 0
        /\ game.log[k].before.camera_x > 0
        /\ game.player.lives = 3
====
